---------------------------- MODULE Spec2Model ----------------------------
(***************************************************************************)
(* network-default-gateway: one call of v4DefaultGateway / v6DefaultGateway *)
(* as a state machine.  A call runs on one runtime (Bun, Deno, Node) and    *)
(* one platform (Linux, macOS, Windows); every await of the source is one   *)
(* step.  The operating system is the variable host: the text or JSON its   *)
(* commands print, fixed for the duration of the call.                      *)
(***************************************************************************)
EXTENDS Integers, Sequences, FiniteSets, TLC

VARIABLES
  globals,        \* the runtime globals (Bun, Deno, process) of the environment
  runtime,        \* Runtime selected by currentRuntime
  os,             \* the operating system's name as the runtime reports it
  netmaskDigits,  \* hexadecimal digits handed to netmaskToPrefixLength on its own
  platform,       \* Platform selected by currentPlatform
  addressFamily,  \* AddressFamily of the call (v4DefaultGateway / v6DefaultGateway)
  host,           \* what the operating system answers to each command
  pc,             \* position of the call in defaultGateway
  issued,         \* argv of every command spawned so far, in spawn order
  settled,        \* what became of each command whose promise settled, in settle order
  pending,        \* indexes of the Linux detail queries still in flight
  routes,         \* ipRoutes (Linux) / netRoutes (Windows)
  addrs,          \* Linux: settled detail promises by route index; Windows: netIpAddresses
  interfaces,     \* the joined candidate list handed to the selector
  selected,       \* the candidate the selector returned, when it returned one
  mac,            \* the locals of MacOSPlatform.defaultGateway
  result,         \* the NetworkDefaultGateway the call resolved with
  error           \* the name of the error the call rejected with

vars == <<globals, runtime, os, netmaskDigits, platform, addressFamily, host, pc, issued, settled, pending,
          routes, addrs, interfaces, selected, mac, result, error>>

-----------------------------------------------------------------------------
(* Bounds of the model *)

MaxRoutes == 2
MaxAddrInfo == 1
MaxNetIpAddresses == 2
MaxRouteRows == 3
MaxInetRows == 1
MaxCandidates == 3

-----------------------------------------------------------------------------
(* JavaScript values: a field of a parsed JSON record may be absent *)

Undefined == [t |-> "undefined"]
Str(s) == [t |-> "string", s |-> s]
Num(n) == [t |-> "number", n |-> n]
NaN == [t |-> "NaN"]

\* typeof v
TypeOf(v) == IF v.t = "NaN" THEN "number" ELSE v.t

\* a < b on values that are numbers or undefined: undefined converts to NaN,
\* and every comparison with NaN is false
JsLess(a, b) == a.t = "number" /\ b.t = "number" /\ a.n < b.n

None == [none |-> TRUE]

-----------------------------------------------------------------------------
(* src/types.ts *)

AddressFamily == {"IPv4", "IPv6"}
Runtime == {"bun", "deno", "node"}
Platform == {"darwin", "linux", "windows"}

\* no Platform: runtime.platform() has not returned one
NoPlatform == "none"

PlatformNotSupportedError == "PlatformNotSupportedError"

\* one naming of Windows for every runtime
platformFromNodeOs(rt, name) ==
  IF name = "darwin" THEN [ok |-> TRUE, val |-> "darwin"]
  ELSE IF name = "linux" THEN [ok |-> TRUE, val |-> "linux"]
  ELSE IF name = "win32" THEN [ok |-> TRUE, val |-> "windows"]
  ELSE [ok |-> FALSE, val |-> NoPlatform]

\* platformFromRuntimeOs: the Platform, or PlatformNotSupportedError thrown
platformFromRuntimeOs(rt, name) ==
  IF name = "darwin" THEN [ok |-> TRUE, val |-> "darwin"]
  ELSE IF name = "linux" THEN [ok |-> TRUE, val |-> "linux"]
  ELSE IF (IF rt = "deno" THEN name = "windows" ELSE name = "win32")
  THEN [ok |-> TRUE, val |-> "windows"]
  ELSE [ok |-> FALSE, val |-> NoPlatform]

\* what os.platform() of node:os (Node, Bun) and Deno.build.os may report
OsNames == {"darwin", "linux", "win32", "windows", "freebsd", "android"}

\* the name under which runtime rt reports the operating system of Platform p
OsOf(rt, p) == IF p = "windows" /\ rt # "deno" THEN "win32" ELSE p

UnixAddressFamily(af) == IF af = "IPv4" THEN "inet" ELSE "inet6"

DefaultGatewayNotAvailableError == "DefaultGatewayNotAvailableError"
DefaultInterfaceNotFoundError == "DefaultInterfaceNotFoundError"
NoAvailableNetworkError == "NoAvailableNetworkError"
JSONParsingSpawnerOutputError == "JSONParsingSpawnerOutputError"
\* what a runtime raises when the child process cannot be spawned
SpawnError == "SpawnError"

\* a result whose ip and gateway changed places
GatewayAsIp(ip, gateway, interface, prefixLength) ==
  [ip |-> gateway, gateway |-> ip, interface |-> interface,
   prefixLength |-> prefixLength]

NetworkDefaultGateway(ip, gateway, interface, prefixLength) ==
  [ip |-> ip, gateway |-> gateway, interface |-> interface,
   prefixLength |-> prefixLength]

-----------------------------------------------------------------------------
(* Generic sequence helpers (Array.prototype.filter / flatMap / reduce) *)

RECURSIVE Flat(_)
Flat(ss) == IF ss = <<>> THEN <<>> ELSE Head(ss) \o Flat(Tail(ss))

Range(s) == {s[i] : i \in 1..Len(s)}

\* the sequences over S of length at most n
RECURSIVE SeqsUpTo(_, _)
SeqsUpTo(S, n) ==
  IF n = 0 THEN {<<>>}
  ELSE LET shorter == SeqsUpTo(S, n - 1)
       IN  shorter \cup {Append(s, x) : s \in {q \in shorter : Len(q) = n - 1}, x \in S}

\* those without a repeated element: a table never lists the same row twice
DistinctSeqsUpTo(S, n) ==
  {s \in SeqsUpTo(S, n) : Cardinality(Range(s)) = Len(s)}

-----------------------------------------------------------------------------
(* Command output: what a child process wrote to stdout.  The output of ip  *)
(* and of PowerShell is JSON (or not); the output of route, ifconfig, grep  *)
(* and awk is text: a sequence of lines, each a sequence of the tokens that *)
(* whitespace separates.                                                    *)

EmptyOutput == [kind |-> "empty", isArray |-> FALSE, val |-> <<>>]
GarbageOutput == [kind |-> "garbage", isArray |-> FALSE, val |-> <<>>]
JsonArray(s) == [kind |-> "json", isArray |-> TRUE, val |-> s]
JsonObject(o) == [kind |-> "json", isArray |-> FALSE, val |-> <<o>>]

Text(lines) == [kind |-> "text", isArray |-> FALSE, val |-> lines]

Min(S) == CHOOSE x \in S : \A y \in S : x <= y

Max(S) == CHOOSE x \in S : \A y \in S : y <= x

-----------------------------------------------------------------------------
(* src/common.ts: the runtime *)

RuntimeNotSupportedError == "RuntimeNotSupportedError"

\* the globals of the environment each runtime runs the program in: Bun and
\* Deno define process with versions.node as well
GlobalsOf(rt) ==
  [Bun |-> IF rt = "bun" THEN "versioned" ELSE "absent",
   Deno |-> IF rt = "deno" THEN "versioned" ELSE "absent",
   process |-> "versioned"]

\* runtimes[r].check: typeof G !== 'undefined' && G.version; a global is
\* "absent", "unversioned" (defined, the version not) or "versioned", and
\* process may be "bare", without versions, where reading versions.node throws
RuntimeCheck(g, r) ==
  CASE r = "bun" -> g.Bun = "versioned"
    [] r = "deno" -> g.Deno = "versioned"
    [] r = "node" -> g.process = "versioned"

\* the order in which the runtimes table is written
RuntimeTableOrder == <<"deno", "bun", "node">>

\* Object.values(Runtime): the members in the order of the enum
RuntimeOrder == <<"bun", "deno", "node">>

\* Object.values(Runtime).find((r) => runtimes[r].check)
currentRuntime(g) ==
  LET found == {i \in 1..Len(RuntimeOrder) : RuntimeCheck(g, RuntimeOrder[i])}
  IN  IF found = {} THEN [ok |-> FALSE, val |-> "none"]
      ELSE [ok |-> TRUE, val |-> RuntimeOrder[Min(found)]]

-----------------------------------------------------------------------------
(* The text of an output *)

\* String.prototype.trim(): the blank lines at both ends go, and so does the
\* whitespace around the first and the last token (tokens carry none)
Trim(raw) ==
  IF raw.kind # "text" THEN raw
  ELSE LET nonBlank == {i \in 1..Len(raw.val) : raw.val[i] # <<>>}
       IN  IF nonBlank = {} THEN EmptyOutput
           ELSE Text(SubSeq(raw.val, Min(nonBlank), Max(nonBlank)))

\* the lines a process reads from its stdin, or that a text holds
Lines(raw) == IF raw.kind = "text" THEN raw.val ELSE <<>>

RECURSIVE Join(_, _)
Join(ss, sep) ==
  IF ss = <<>> THEN ""
  ELSE IF Len(ss) = 1 THEN Head(ss)
  ELSE Head(ss) \o sep \o Join(Tail(ss), sep)

\* the string a text is
StringOf(raw) ==
  LET ls == Lines(raw)
  IN  Join([i \in 1..Len(ls) |-> Join(ls[i], " ")], "\n")

\* the check for empty output left out
NeverFalsy(raw) == FALSE

\* !rawOutput
Falsy(raw) == raw.kind = "empty"

\* JSON.parse(rawOutput): throws on the empty string and on text that is not JSON
\* a parser that reads no text as an empty list
JSONParseEmptyAsList(raw) ==
  IF raw.kind = "json"
  THEN [ok |-> TRUE, isArray |-> raw.isArray, val |-> raw.val]
  ELSE IF raw.kind = "empty"
  THEN [ok |-> TRUE, isArray |-> TRUE, val |-> <<>>]
  ELSE [ok |-> FALSE, isArray |-> FALSE, val |-> <<>>]

JSONParse(raw) ==
  IF raw.kind = "json"
  THEN [ok |-> TRUE, isArray |-> raw.isArray, val |-> raw.val]
  ELSE [ok |-> FALSE, isArray |-> FALSE, val |-> <<>>]


-----------------------------------------------------------------------------
(* The runtimes' spawnCommand.  A child process is [code, stdout]; spawned  *)
(* tells whether the operating system could start it (the executable argv[1]*)
(* is installed).  The outcome is what                                      *)
(* becomes of the promise: resolved with out, rejected, or never settled    *)
(* because the error was thrown inside an event handler ("uncaught").       *)

Resolved(out) == [st |-> "resolved", out |-> out]
Rejected == [st |-> "rejected", out |-> EmptyOutput]
Uncaught == [st |-> "uncaught", out |-> EmptyOutput]

NodeSpawnCommand(spawned, child, hasInput) ==
  IF ~hasInput
  THEN \* spawnSync(...).stdout.toString().trim(): stdout is null when spawn failed
       IF spawned THEN Resolved(Trim(child.stdout)) ELSE Rejected
  ELSE \* new Promise((resolve) => ...): the handlers throw, nothing rejects
       IF ~spawned THEN Uncaught
       ELSE IF child.code # 0 THEN Uncaught
       ELSE Resolved(Trim(child.stdout))

DenoSpawnCommand(spawned, child, hasInput) ==
  IF spawned THEN Resolved(Trim(child.stdout)) ELSE Rejected

BunSpawnCommand(spawned, child, hasInput) ==
  IF spawned THEN Resolved(Trim(child.stdout)) ELSE Rejected

\* runtime.spawnCommand, bound to the platform by currentPlatform
spawnCommand(rt, spawned, child, hasInput) ==
  CASE rt = "node" -> NodeSpawnCommand(spawned, child, hasInput)
    [] rt = "deno" -> DenoSpawnCommand(spawned, child, hasInput)
    [] rt = "bun" -> BunSpawnCommand(spawned, child, hasInput)

\* the executable is on the PATH
Installed(h, argv) == argv[1] \notin h.missing

-----------------------------------------------------------------------------
(* Linux: src/platforms/linux/linux-utils.ts *)

ipDefaultRouteCommand(af) ==
  <<"ip", IF af = "IPv4" THEN "-4" ELSE "-6", "-j", "route", "show", "default">>

ipInterfaceDetailsCommand(int) == <<"ip", "-j", "addr", "show", int>>

\* what ip prints: the route table of the family the flag names, the address
\* record of the device the last argument names
LinuxChild(h, argv) ==
  IF argv[4] = "route"
  THEN [code |-> 0, stdout |-> h.routeTable[argv[2]]]
  ELSE IF argv[5] \in DOMAIN h.addrTable
       THEN [code |-> 0, stdout |-> h.addrTable[argv[5]]]
       ELSE [code |-> 1, stdout |-> EmptyOutput]

\* spawnCommandAndParse: the promise's outcome, [ok, val] or [ok = FALSE, err]
LinuxSpawnCommandAndParse(rt, spawned, child) ==
  LET o == spawnCommand(rt, spawned, child, FALSE)
      parsed == JSONParse(o.out)
  IN  IF o.st # "resolved" THEN [ok |-> FALSE, err |-> SpawnError, val |-> <<>>]
      ELSE IF ~parsed.ok
           THEN [ok |-> FALSE, err |-> JSONParsingSpawnerOutputError, val |-> <<>>]
      ELSE [ok |-> TRUE, err |-> "", val |-> parsed.val]

\* one candidate: {...ipRoute, ...ipAddr (without addr_info), ...ipAddrInfo}
LinuxInterface(ipRoute, ipAddr, ipAddrInfo) ==
  [dst |-> ipRoute.dst, gateway |-> ipRoute.gateway, dev |-> ipRoute.dev,
   metric |-> ipRoute.metric,
   ifname |-> ipAddr.ifname, operstate |-> ipAddr.operstate,
   family |-> ipAddrInfo.family, local |-> ipAddrInfo.local,
   prefixlen |-> ipAddrInfo.prefixlen]

\* the candidates of one route: every address entry of every record of its device
LinuxCandidatesOfRoute(ipRoute, ipAddrs) ==
  LET matching == SelectSeq(ipAddrs, LAMBDA a : a.ifname = ipRoute.dev)
  IN  Flat([k \in 1..Len(matching) |->
             [j \in 1..Len(matching[k].addr_info) |->
               LinuxInterface(ipRoute, matching[k], matching[k].addr_info[j])]])

mergeRoutesWithAddresseses(ipRoutes, ipAddrs) ==
  Flat([i \in 1..Len(ipRoutes) |-> LinuxCandidatesOfRoute(ipRoutes[i], ipAddrs)])

LinuxOperstateUp == "UP"

\* the callback that keeps the earlier candidate unless the later is lower
LinuxKeepEarlierOnTie(prev, curr) ==
  IF JsLess(curr.metric, prev.metric) THEN curr ELSE prev

\* the reduce callback: (prev, curr) => (prev.metric < curr.metric ? prev : curr)
LinuxLowerMetric(prev, curr) ==
  IF JsLess(prev.metric, curr.metric) THEN prev ELSE curr

\* Array.prototype.reduce without an initial value
RECURSIVE LinuxReduce(_, _)
LinuxReduce(prev, rest) ==
  IF rest = <<>> THEN prev
  ELSE LinuxReduce(LinuxLowerMetric(prev, Head(rest)), Tail(rest))

\* the filter by state left out
LinuxFamilyOnly(ints, af) ==
  SelectSeq(ints, LAMBDA c : c.family = UnixAddressFamily(af))

\* the filter by address family left out
LinuxUpOnly(ints, af) ==
  SelectSeq(ints, LAMBDA c : c.operstate = LinuxOperstateUp)

LinuxFilteredInterfaces(ints, af) ==
  SelectSeq(SelectSeq(ints, LAMBDA c : c.family = UnixAddressFamily(af)),
            LAMBDA c : c.operstate = LinuxOperstateUp)

LinuxDefaultInterfaceByAddressFamily(ints, af) ==
  LET filteredInterfaces == LinuxFilteredInterfaces(ints, af)
  IN  IF Len(filteredInterfaces) = 0
      THEN [ok |-> FALSE, err |-> DefaultInterfaceNotFoundError, val |-> None]
      ELSE [ok |-> TRUE, err |-> "",
            val |-> LinuxReduce(Head(filteredInterfaces), Tail(filteredInterfaces))]


-----------------------------------------------------------------------------
(* Windows: src/platforms/windows/windows-utils.ts *)

\* argv[3] stands for the value the PowerShell script is built around: the
\* destination prefix, the interface indexes
netRouteCommand(af) ==
  <<"powershell", "Get-NetRoute", IF af = "IPv4" THEN "0.0.0.0/0" ELSE "::/0">>

netIpAddressCommand(ids) == <<"powershell", "Get-NetIPAddress", ids>>

\* ... | ConvertTo-Json: nothing for no row, an object for one row, an array otherwise
ConvertToJson(rows) ==
  IF Len(rows) = 0 THEN EmptyOutput
  ELSE IF Len(rows) = 1 THEN JsonObject(rows[1])
  ELSE JsonArray(rows)

\* what PowerShell prints: the routes of the destination prefix, the addresses
\* of the interfaces whose index is among ids
WindowsChild(h, argv) ==
  IF argv[2] \in h.garbled THEN [code |-> 0, stdout |-> GarbageOutput]
  ELSE IF argv[2] = "Get-NetRoute"
  THEN [code |-> 0, stdout |-> ConvertToJson(h.netRoutes[argv[3]])]
  ELSE [code |-> 0,
        stdout |-> ConvertToJson(SelectSeq(h.netIpAddresses,
                                           LAMBDA a : a.ifIndex \in Range(argv[3])))]

\* a parser that takes a list only: a single object counts as no row
WindowsSpawnCommandAndParseListOnly(rt, spawned, child) ==
  LET o == spawnCommand(rt, spawned, child, FALSE)
      parsed == JSONParse(o.out)
  IN  IF o.st # "resolved" THEN [ok |-> FALSE, err |-> SpawnError, val |-> <<>>]
      ELSE IF Falsy(o.out)
           THEN [ok |-> FALSE, err |-> DefaultGatewayNotAvailableError, val |-> <<>>]
      ELSE IF ~parsed.ok
           THEN [ok |-> FALSE, err |-> JSONParsingSpawnerOutputError, val |-> <<>>]
      ELSE [ok |-> TRUE, err |-> "", val |-> IF parsed.isArray THEN parsed.val ELSE <<>>]

WindowsSpawnCommandAndParse(rt, spawned, child) ==
  LET o == spawnCommand(rt, spawned, child, FALSE)
      parsed == JSONParse(o.out)
  IN  IF o.st # "resolved" THEN [ok |-> FALSE, err |-> SpawnError, val |-> <<>>]
      ELSE IF Falsy(o.out)
           THEN [ok |-> FALSE, err |-> DefaultGatewayNotAvailableError, val |-> <<>>]
      ELSE IF ~parsed.ok
           THEN [ok |-> FALSE, err |-> JSONParsingSpawnerOutputError, val |-> <<>>]
      ELSE \* Array.isArray(output) ? output : [output]
           [ok |-> TRUE, err |-> "", val |-> parsed.val]

WindowsAddressFamily(af) == IF af = "IPv4" THEN 2 ELSE 23

WindowsAddressStatePreferred == 4

\* one candidate: {...route, ...address}
WindowsInterface(route, address) ==
  [ifIndex |-> address.ifIndex, NextHop |-> route.NextHop,
   InterfaceMetric |-> route.InterfaceMetric,
   IPAddress |-> address.IPAddress, InterfaceAlias |-> address.InterfaceAlias,
   AddressFamily |-> address.AddressFamily, PrefixLength |-> address.PrefixLength,
   AddressState |-> address.AddressState]

WindowsCandidatesOfRoute(route, netIpAddresses) ==
  LET matching == SelectSeq(netIpAddresses, LAMBDA a : a.ifIndex = route.ifIndex)
  IN  [k \in 1..Len(matching) |-> WindowsInterface(route, matching[k])]

\* the join of WindowsPlatform.defaultGateway
WindowsMerge(netRoutes, netIpAddresses) ==
  Flat([i \in 1..Len(netRoutes) |-> WindowsCandidatesOfRoute(netRoutes[i], netIpAddresses)])

\* a callback that takes a metric that is not there for 0
WindowsLowerMetricAbsentAsZero(prev, curr) ==
  LET value(m) == IF m.t = "number" THEN m.n ELSE 0
  IN  IF value(prev.InterfaceMetric) < value(curr.InterfaceMetric) THEN prev ELSE curr

\* the reduce callback: prev.InterfaceMetric < curr.InterfaceMetric ? prev : curr
WindowsLowerMetric(prev, curr) ==
  IF JsLess(prev.InterfaceMetric, curr.InterfaceMetric) THEN prev ELSE curr

RECURSIVE WindowsReduce(_, _)
WindowsReduce(prev, rest) ==
  IF rest = <<>> THEN prev
  ELSE WindowsReduce(WindowsLowerMetric(prev, Head(rest)), Tail(rest))

WindowsFamilyInterfaces(ints, af) ==
  SelectSeq(ints, LAMBDA c : c.AddressFamily = WindowsAddressFamily(af))

WindowsActiveInterfaces(familyInterfaces) ==
  SelectSeq(familyInterfaces, LAMBDA c : c.AddressState = WindowsAddressStatePreferred)

WindowsDefaultInterfaceByAddressFamily(ints, af) ==
  LET familyInterfaces == WindowsFamilyInterfaces(ints, af)
      activeInterfaces == WindowsActiveInterfaces(familyInterfaces)
  IN  IF Len(familyInterfaces) = 0
      THEN [ok |-> FALSE, err |-> DefaultInterfaceNotFoundError, val |-> None]
      ELSE IF Len(activeInterfaces) = 0
      THEN [ok |-> FALSE, err |-> NoAvailableNetworkError, val |-> None]
      ELSE [ok |-> TRUE, err |-> "",
            val |-> WindowsReduce(Head(activeInterfaces), Tail(activeInterfaces))]

-----------------------------------------------------------------------------
(* macOS: src/platforms/macos/macos-utils.ts *)

defaultRouteCommand(af) ==
  <<"route", "-n", "get", IF af = "IPv4" THEN "-inet" ELSE "-inet6", "default">>

interfaceDetailsCommand(int) == <<"ifconfig", int>>

grepCommand(value) == <<"grep", value>>

awkCommand == <<"awk", "{print $2}">>

\* pattern occurs in token as a substring, for the patterns the program greps
\* for and the tokens route and ifconfig print: "gateway" occurs in
\* "gateway:", "inet" in "inet6", and nothing occurs in "<UP,GATEWAY,DONE>"
Occurs(pattern, token) ==
  \/ token = pattern
  \/ token = pattern \o ":"
  \/ pattern = "inet" /\ token = "inet6"

\* a grep that looks at the first token of the line only
GrepMatchesFirstToken(value, line) ==
  /\ line # <<>>
  /\ IF value = "inet " THEN line[1] = "inet" /\ 1 < Len(line)
     ELSE Occurs(value, line[1])

\* grep value: the line holds the pattern; 'inet ' asks for a token ending in
\* inet with a blank after it, which the last token of a line does not have
GrepMatches(value, line) ==
  IF value = "inet "
  THEN \E i \in 1..Len(line) : line[i] = "inet" /\ i < Len(line)
  ELSE \E i \in 1..Len(line) : Occurs(value, line[i])

\* grep exits with 1 when it selected no line
Grep(value, input) ==
  LET selectedLines == SelectSeq(Lines(input), LAMBDA l : GrepMatches(value, l))
  IN  [code |-> IF selectedLines = <<>> THEN 1 ELSE 0, stdout |-> Text(selectedLines)]

\* awk '{print $2}': one line per input line, blank when it has no second token
Awk(input) ==
  LET ls == Lines(input)
  IN  [code |-> 0,
       stdout |-> Text([i \in 1..Len(ls) |-> IF Len(ls[i]) >= 2 THEN <<ls[i][2]>> ELSE <<>>])]

\* what the commands of macOS print
MacChild(h, argv, input) ==
  CASE argv[1] = "route" ->
         [code |-> IF Falsy(Trim(h.routeTable[argv[4]])) THEN 1 ELSE 0,
          stdout |-> h.routeTable[argv[4]]]
    [] argv[1] = "ifconfig" ->
         IF argv[2] \in DOMAIN h.ifconfig
         THEN [code |-> 0, stdout |-> h.ifconfig[argv[2]]]
         ELSE [code |-> 1, stdout |-> EmptyOutput]
    [] argv[1] = "grep" -> Grep(argv[2], input)
    [] argv[1] = "awk" -> Awk(input)

\* spawner(cmds, processInput): an empty processInput is no input
MacSpawner(rt, h, argv, input) ==
  LET hasInput == ~Falsy(input)
  IN  spawnCommand(rt, Installed(h, argv),
                   MacChild(h, argv, IF hasInput THEN input ELSE EmptyOutput), hasInput)

\* a search that takes a token the key occurs in for the key
valueFromKeyByOccurrence(input, key) ==
  LET parts == Flat(Lines(input))
      index == {i \in 1..Len(parts) : Occurs(key, parts[i])}
  IN  IF index # {} /\ Min(index) + 1 <= Len(parts)
      THEN Str(parts[Min(index) + 1])
      ELSE [t |-> "null"]

\* input.split(/\s+/), indexOf(key), the part after it
valueFromKey(input, key) ==
  LET parts == Flat(Lines(input))
      index == {i \in 1..Len(parts) : parts[i] = key}
  IN  IF index # {} /\ Min(index) + 1 <= Len(parts)
      THEN Str(parts[Min(index) + 1])
      ELSE [t |-> "null"]

\* the hexadecimal digits parseInt(netmask, 16) reads, most significant first;
\* the empty sequence when it reads none (NaN)
HexDigits(text) ==
  CASE text = "0xffffff00" -> <<15, 15, 15, 15, 15, 15, 0, 0>>
    [] text = "0xffffffff" -> <<15, 15, 15, 15, 15, 15, 15, 15>>
    [] text = "0xfffffffff" -> <<15, 15, 15, 15, 15, 15, 15, 15, 15>>
    [] OTHER -> <<>>

\* the number of 1 in the binary expansion of n
RECURSIVE BitCount(_)
BitCount(n) == IF n = 0 THEN 0 ELSE (n % 2) + BitCount(n \div 2)

RECURSIVE Sum(_)
Sum(ns) == IF ns = <<>> THEN 0 ELSE Head(ns) + Sum(Tail(ns))

PrefixLengthNotValidError == "PrefixLengthNotValidError"
DeviceIpNotFoundError == "DeviceIpNotFoundError"
NetmaskNotFoundError == "NetmaskNotFoundError"
PrefixLengthNotFoundError == "PrefixLengthNotFoundError"

\* the significant bits of a Number
DoublePrecision == 53

\* the four bits of a hexadecimal digit, and the bits of a digit string,
\* most significant first
DigitBits(d) == <<d \div 8, (d \div 4) % 2, (d \div 2) % 2, d % 2>>
BitsOf(digits) == Flat([i \in 1..Len(digits) |-> DigitBits(digits[i])])

RECURSIVE Significant(_)
Significant(bits) ==
  IF bits = <<>> \/ Head(bits) = 1 THEN bits ELSE Significant(Tail(bits))

\* bits + 1
RECURSIVE Increment(_)
Increment(bits) ==
  IF bits = <<>> THEN <<1>>
  ELSE IF bits[Len(bits)] = 0 THEN SubSeq(bits, 1, Len(bits) - 1) \o <<1>>
  ELSE Increment(SubSeq(bits, 1, Len(bits) - 1)) \o <<0>>

\* parseInt(netmask, 16): the integer the digits spell, rounded to the nearest
\* Number (ties to even); the bits are what toString(2) prints
ParseInt16(digits) ==
  LET bits == Significant(BitsOf(digits))
      kept == SubSeq(bits, 1, DoublePrecision)
      rest == SubSeq(bits, DoublePrecision + 1, Len(bits))
      up == /\ rest[1] = 1
            /\ \/ kept[DoublePrecision] = 1
               \/ \E i \in 2..Len(rest) : rest[i] = 1
  IN  IF Len(bits) <= DoublePrecision THEN bits
      ELSE (IF up THEN Increment(kept) ELSE kept) \o [i \in 1..Len(rest) |-> 0]

\* netmaskToPrefixLength on the digits parseInt reads
PrefixLengthOfDigits(digits) ==
  LET prefixLength == Sum(ParseInt16(digits))
  IN  IF prefixLength > 32
      THEN [ok |-> FALSE, err |-> PrefixLengthNotValidError, val |-> NaN]
      ELSE [ok |-> TRUE, err |-> "", val |-> Num(prefixLength)]

netmaskToPrefixLength(text) == PrefixLengthOfDigits(HexDigits(text))

\* +v6Prefixlen, for the texts ifconfig prints after prefixlen
ToNumber(text) ==
  CASE text = "64" -> Num(64)
    [] text = "129" -> Num(129)
    [] OTHER -> NaN

DarwinInterfaceStatusActive == "active"

\* prefixLengthAndIpByAddressFamily after its last await: outputIPv is what the
\* grep for the address rows printed
DarwinInterface(outputIPv, af) ==
  LET inet == valueFromKey(outputIPv, UnixAddressFamily(af))
      netmask == valueFromKey(outputIPv, "netmask")
      v6Prefixlen == valueFromKey(outputIPv, "prefixlen")
      failed(err) == [ok |-> FALSE, err |-> err, inet |-> inet, prefixlen |-> NaN]
  IN  IF inet.t = "null" THEN failed(DeviceIpNotFoundError)
      ELSE IF af = "IPv4"
      THEN IF netmask.t = "null" THEN failed(NetmaskNotFoundError)
           ELSE IF ~netmaskToPrefixLength(netmask.s).ok
           THEN failed(netmaskToPrefixLength(netmask.s).err)
           ELSE [ok |-> TRUE, err |-> "", inet |-> inet,
                 prefixlen |-> netmaskToPrefixLength(netmask.s).val]
      ELSE IF v6Prefixlen.t = "null" THEN failed(PrefixLengthNotFoundError)
           ELSE [ok |-> TRUE, err |-> "", inet |-> inet,
                 prefixlen |-> ToNumber(v6Prefixlen.s)]

-----------------------------------------------------------------------------
(* The Linux hosts of the model: what ip prints *)

LinuxDevs == {"eth0", "wlan0"}

GatewayOf(af) == IF af = "IPv4" THEN "192.168.1.1" ELSE "fe80::1"

\* a default route record; ip prints no gateway for a device route and no
\* metric for a route of metric 0
IpRoute(gateway, dev, metric) ==
  [dst |-> "default", gateway |-> gateway, dev |-> dev, metric |-> metric]

IpRoutes(af) ==
  {IpRoute(Str(GatewayOf(af)), "eth0", Num(5)),
   IpRoute(Str(GatewayOf(af)), "wlan0", Num(5)),
   IpRoute(Str(GatewayOf(af)), "wlan0", Num(10)),
   IpRoute(Undefined, "eth0", Undefined)}

IpAddrInfo(family, local, prefixlen) ==
  [family |-> family, local |-> local, prefixlen |-> prefixlen]

IpAddrInfos ==
  {IpAddrInfo("inet", "192.168.1.15", 24), IpAddrInfo("inet6", "fe80::15", 64),
   IpAddrInfo("inet", "10.0.0.7", 40)}

IpAddr(ifname, operstate, addr_info) ==
  [ifname |-> ifname, operstate |-> operstate, addr_info |-> addr_info]

LinuxRouteOutputs(af) ==
  {EmptyOutput, GarbageOutput}
  \cup {JsonArray(s) : s \in DistinctSeqsUpTo(IpRoutes(af), MaxRoutes)}

IpAddrInfoLists == DistinctSeqsUpTo(IpAddrInfos, MaxAddrInfo)

LinuxAddrOutputs(d) ==
  {GarbageOutput}
  \cup {JsonArray(<<IpAddr(d, st, ai)>>) : st \in {"UP", "DOWN"}, ai \in IpAddrInfoLists}

\* the devices the routes of a route output name
DevsOf(ro) == {ro.val[i].dev : i \in 1..Len(ro.val)}

\* the address table of a device no route names is never read: one stands for all
IdleAddrOutput(d) == JsonArray(<<IpAddr(d, "DOWN", <<>>)>>)

OtherFamily(af) == IF af = "IPv4" THEN "IPv6" ELSE "IPv4"

LinuxAddrOutputsFor(d, ro) ==
  IF d \in DevsOf(ro) THEN LinuxAddrOutputs(d) ELSE {IdleAddrOutput(d)}

LinuxHost(af, ro, a, b) ==
  [missing |-> {},
   routeTable |->
     [f \in {"-4", "-6"} |->
       IF f = ipDefaultRouteCommand(af)[2] THEN ro
       ELSE JsonArray(<<IpRoute(Str(GatewayOf(OtherFamily(af))), "eth0", Num(5))>>)],
   addrTable |-> [d \in LinuxDevs |-> IF d = "eth0" THEN a ELSE b]]

\* a host without ip answers nothing: its tables never matter
LinuxHostWithoutIp ==
  [missing |-> {"ip"},
   routeTable |-> [f \in {"-4", "-6"} |-> EmptyOutput],
   addrTable |-> [d \in LinuxDevs |-> EmptyOutput]]

-----------------------------------------------------------------------------
(* The Windows hosts of the model: what PowerShell prints *)

NetRoute(ifIndex, NextHop, InterfaceMetric) ==
  [ifIndex |-> ifIndex, NextHop |-> NextHop, InterfaceMetric |-> Num(InterfaceMetric)]

NetRoutes(af) ==
  {NetRoute(i, GatewayOf(af), m) : i \in {7, 12}, m \in {5, 10}}

NetIpAddress(ifIndex, IPAddress, InterfaceAlias, family, PrefixLength, AddressState) ==
  [ifIndex |-> ifIndex, IPAddress |-> IPAddress, InterfaceAlias |-> InterfaceAlias,
   AddressFamily |-> family, PrefixLength |-> PrefixLength,
   AddressState |-> AddressState]

\* address states other than Preferred (4): Deprecated (3)
NetIpAddresses ==
  {NetIpAddress(7, "192.168.1.15", "Ethernet", 2, 24, 4),
   NetIpAddress(7, "fe80::15", "Ethernet", 23, 64, 4),
   NetIpAddress(12, "10.0.0.7", "Wi-Fi", 2, 40, 4),
   NetIpAddress(12, "fe80::16", "Wi-Fi", 23, 64, 3)}

WindowsHost(af, rs, as) ==
  [missing |-> {}, garbled |-> {},
   netRoutes |-> [p \in {"0.0.0.0/0", "::/0"} |->
                   IF p = netRouteCommand(af)[3] THEN rs
                   ELSE <<NetRoute(7, GatewayOf(OtherFamily(af)), 5)>>],
   netIpAddresses |-> as]

\* a host whose PowerShell prints something that is not JSON for the cmdlet
WindowsHostGarbling(af, rs, cmdlet) ==
  [WindowsHost(af, rs, <<>>) EXCEPT !.garbled = {cmdlet}]

WindowsHostWithoutPowershell ==
  [WindowsHost("IPv4", <<>>, <<>>) EXCEPT !.missing = {"powershell"}]

-----------------------------------------------------------------------------
(* The macOS hosts of the model: what route and ifconfig print *)

MacRouteRows(af) ==
  {<<"route", "to:", "gateway">>, <<"gateway:", GatewayOf(af)>>,
   <<"interface:", "en0">>, <<"flags:", "<UP,GATEWAY,DONE>">>}

\* the address rows of ifconfig: a netmask of 36 bits and a prefixlen of 129
\* are among them
MacInetRows ==
  {<<"inet", "192.168.1.15", "netmask", "0xffffff00", "broadcast", "192.168.1.255">>,
   <<"inet6", "fe80::15%en0", "prefixlen", "64">>,
   <<"inet", "10.0.0.7", "netmask", "0xfffffffff">>,
   <<"inet6", "fe80::16%en0", "prefixlen", "129">>}

MacStatusRows == {<<>>, <<<<"status:", "active">>>>, <<<<"status:", "inactive">>>>}

MacRouteOutputs(af) == {Text(ls) : ls \in DistinctSeqsUpTo(MacRouteRows(af), MaxRouteRows)}

MacInterfaceOutputs ==
  {Text(rows \o status) : rows \in DistinctSeqsUpTo(MacInetRows, MaxInetRows),
                          status \in MacStatusRows}

\* ifconfig is run for en0 only when the route output names it: otherwise one
\* output stands for all
MacInterfaceOutputsFor(ro) ==
  IF <<"interface:", "en0">> \in Range(Lines(ro)) THEN MacInterfaceOutputs
  ELSE {EmptyOutput}

MacHost(af, ro, io) ==
  [missing |-> {},
   routeTable |-> [f \in {"-inet", "-inet6"} |->
                    IF f = defaultRouteCommand(af)[4] THEN ro
                    ELSE Text(<<<<"gateway:", GatewayOf(OtherFamily(af))>>,
                                <<"interface:", "en0">>>>)],
   ifconfig |-> [d \in {"en0"} |-> io]]

\* a host on which one executable cannot be started
MacHostWithout(af, cmd) ==
  [MacHost(af, Text(<<<<"gateway:", GatewayOf(af)>>, <<"interface:", "en0">>>>),
           Text(<<<<"status:", "active">>>>))
     EXCEPT !.missing = {cmd}]

-----------------------------------------------------------------------------
(* The call *)

\* the locals of MacOSPlatform.defaultGateway and of the helpers it awaits
NoMac ==
  [key |-> "", outputDefaultRoute |-> EmptyOutput, outputInterface |-> EmptyOutput,
   output |-> EmptyOutput, gateway |-> Undefined, defaultInterface |-> Undefined]

NothingYet ==
  /\ netmaskDigits = <<>>
  /\ issued = <<>>
  /\ settled = <<>>
  /\ pending = {}
  /\ routes = <<>>
  /\ addrs = <<>>
  /\ interfaces = <<>>
  /\ selected = None
  /\ mac = NoMac
  /\ result = None
  /\ error = ""

InitCall ==
  /\ pc = "start"
  /\ NothingYet

InitLinux ==
  /\ platform = "linux"
  /\ runtime \in Runtime
  /\ globals = GlobalsOf(runtime)
  /\ os = OsOf(runtime, platform)
  /\ addressFamily \in AddressFamily
  /\ \/ host = LinuxHostWithoutIp
     \/ \E ro \in LinuxRouteOutputs(addressFamily) :
          \E a \in LinuxAddrOutputsFor("eth0", ro), b \in LinuxAddrOutputsFor("wlan0", ro) :
            host = LinuxHost(addressFamily, ro, a, b)
  /\ InitCall

\* the record of a settled command: the process (whether it started, its exit
\* status) and what the executor made of it
Settlement(argv, child, hasInput, o) ==
  [argv |-> argv, spawned |-> Installed(host, argv), code |-> child.code,
   hasInput |-> hasInput, st |-> o.st, out |-> o.out]

\* the call rejects with err
Throw(err) ==
  /\ pc' = "done"
  /\ error' = err
  /\ result' = None

\* the call resolves with res
Return(res) ==
  /\ pc' = "done"
  /\ result' = res
  /\ error' = ""

\* one detail query for each device, the first time a route names it
LinuxCommandsPerDevice(ipRoutes) ==
  LET named == [i \in 1..Len(ipRoutes) |-> <<i, ipRoutes[i].dev>>]
      firsts == SelectSeq(named, LAMBDA n : \A j \in 1..(n[1] - 1) : ipRoutes[j].dev # n[2])
  IN  [k \in 1..Len(firsts) |-> ipInterfaceDetailsCommand(firsts[k][2])]

\* ipRoutes.map((r) => ... ipInterfaceDetailsCommand(r.dev)): the detail queries
LinuxDetailCommands(ipRoutes) ==
  [i \in 1..Len(ipRoutes) |-> ipInterfaceDetailsCommand(ipRoutes[i].dev)]

\* LinuxPlatform.defaultGateway up to the fan-out of the detail queries
LinuxDefaultRoute ==
  /\ platform = "linux"
  /\ pc = "start"
  /\ LET argv == ipDefaultRouteCommand(addressFamily)
         child == LinuxChild(host, argv)
         o == spawnCommand(runtime, Installed(host, argv), child, FALSE)
         r == LinuxSpawnCommandAndParse(runtime, Installed(host, argv), child)
     IN  /\ settled' = Append(settled, Settlement(argv, child, FALSE, o))
         /\ IF ~r.ok
           THEN /\ Throw(r.err)
                /\ issued' = Append(issued, argv)
                /\ UNCHANGED <<pending, routes, addrs>>
           ELSE IF Len(r.val) = 0
           THEN /\ Throw(DefaultGatewayNotAvailableError)
                /\ issued' = Append(issued, argv)
                /\ UNCHANGED <<pending, routes, addrs>>
           ELSE /\ routes' = r.val
                /\ issued' = Append(issued, argv)
                             \o (IF runtime = "node"
                                 THEN SubSeq(LinuxDetailCommands(r.val), 1, 1)
                                 ELSE LinuxDetailCommands(r.val))
                /\ pending' = 1..Len(r.val)
                /\ addrs' = [i \in 1..Len(r.val) |-> <<>>]
                /\ pc' = "details"
                /\ UNCHANGED <<result, error>>
  /\ UNCHANGED <<globals, runtime, os, netmaskDigits, platform, addressFamily, host, interfaces, selected, mac>>

\* the promise of the detail query of route k
LinuxDetail(k) ==
  LET argv == ipInterfaceDetailsCommand(routes[k].dev)
  IN  LinuxSpawnCommandAndParse(runtime, Installed(host, argv), LinuxChild(host, argv))

\* the detail queries spawnSync has yet to run when query i returns: under Node
\* ipRoutes.map runs them one after the other, whatever became of the earlier
LinuxIssuedNext(i) ==
  IF runtime = "node" /\ i < Len(LinuxDetailCommands(routes))
  THEN Append(issued, LinuxDetailCommands(routes)[i + 1])
  ELSE issued

\* the detail queries awaited with Promise.allSettled: a failed one counts as
\* a device without addresses
LinuxDetailSettleBestEffort ==
  /\ platform = "linux"
  /\ pc = "details"
  /\ \E i \in pending :
       /\ runtime = "node" => i = Min(pending)
       /\ LET argv == ipInterfaceDetailsCommand(routes[i].dev)
              child == LinuxChild(host, argv)
              o == spawnCommand(runtime, Installed(host, argv), child, FALSE)
              r == LinuxSpawnCommandAndParse(runtime, Installed(host, argv), child)
          IN  /\ pending' = pending \ {i}
              /\ settled' = Append(settled, Settlement(argv, child, FALSE, o))
              /\ issued' = LinuxIssuedNext(i)
              /\ addrs' = [addrs EXCEPT ![i] = r.val]
              /\ pc' = IF pending = {i} THEN "merge" ELSE "details"
              /\ UNCHANGED <<result, error>>
  /\ UNCHANGED <<globals, runtime, os, netmaskDigits, platform, addressFamily, host, routes,
                 interfaces, selected, mac>>

\* the answers kept in the order they arrive in, not in that of the routes
LinuxDetailSettleInArrivalOrder ==
  /\ platform = "linux"
  /\ pc = "details"
  /\ \E i \in pending :
       /\ runtime = "node" => i = Min(pending)
       /\ LET argv == ipInterfaceDetailsCommand(routes[i].dev)
              child == LinuxChild(host, argv)
              o == spawnCommand(runtime, Installed(host, argv), child, FALSE)
              r == LinuxSpawnCommandAndParse(runtime, Installed(host, argv), child)
              failed == {k \in 1..Len(routes) : ~LinuxDetail(k).ok}
              rejects == IF runtime = "node" THEN pending = {i} /\ failed # {} ELSE ~r.ok
              rejection == IF runtime = "node" THEN LinuxDetail(Min(failed)).err ELSE r.err
              arrival == Len(routes) + 1 - Cardinality(pending)
          IN  /\ pending' = pending \ {i}
              /\ settled' = Append(settled, Settlement(argv, child, FALSE, o))
              /\ issued' = LinuxIssuedNext(i)
              /\ IF rejects
                 THEN /\ Throw(rejection)
                      /\ UNCHANGED addrs
                 ELSE /\ addrs' = [addrs EXCEPT ![arrival] = r.val]
                      /\ pc' = IF pending = {i} THEN "merge" ELSE "details"
                      /\ UNCHANGED <<result, error>>
  /\ UNCHANGED <<globals, runtime, os, netmaskDigits, platform, addressFamily, host, routes,
                 interfaces, selected, mac>>

\* one detail query settles; Promise.all rejects with the first rejection:
\* the first to happen under Deno and Bun, the first of the list under Node,
\* where every query has run by the time Promise.all is called
LinuxDetailSettle ==
  /\ platform = "linux"
  /\ pc = "details"
  /\ \E i \in pending :
       /\ runtime = "node" => i = Min(pending)
       /\ LET argv == ipInterfaceDetailsCommand(routes[i].dev)
              child == LinuxChild(host, argv)
              o == spawnCommand(runtime, Installed(host, argv), child, FALSE)
              r == LinuxSpawnCommandAndParse(runtime, Installed(host, argv), child)
              failed == {k \in 1..Len(routes) : ~LinuxDetail(k).ok}
              rejects == IF runtime = "node" THEN pending = {i} /\ failed # {} ELSE ~r.ok
              rejection == IF runtime = "node" THEN LinuxDetail(Min(failed)).err ELSE r.err
          IN  /\ pending' = pending \ {i}
              /\ settled' = Append(settled, Settlement(argv, child, FALSE, o))
              /\ issued' = LinuxIssuedNext(i)
              /\ IF rejects
                 THEN /\ Throw(rejection)
                      /\ UNCHANGED addrs
                 ELSE /\ addrs' = [addrs EXCEPT ![i] = r.val]
                      /\ pc' = IF pending = {i} THEN "merge" ELSE "details"
                      /\ UNCHANGED <<result, error>>
  /\ UNCHANGED <<globals, runtime, os, netmaskDigits, platform, addressFamily, host, routes,
                 interfaces, selected, mac>>

\* LinuxPlatform.defaultGateway after await Promise.all(commands)
LinuxMergeAndSelect ==
  /\ platform = "linux"
  /\ pc = "merge"
  /\ LET ipAddresses == Flat(addrs)
         ints == mergeRoutesWithAddresseses(routes, ipAddresses)
         d == LinuxDefaultInterfaceByAddressFamily(ints, addressFamily)
     IN  /\ interfaces' = ints
         /\ IF d.ok
            THEN /\ selected' = d.val
                 /\ Return(NetworkDefaultGateway(Str(d.val.local), d.val.gateway,
                                                 Str(d.val.ifname), Num(d.val.prefixlen)))
            ELSE /\ selected' = None
                 /\ Throw(d.err)
  /\ UNCHANGED <<globals, runtime, os, netmaskDigits, platform, addressFamily, host, issued, settled, pending,
                 routes, addrs, mac>>

NextLinux == LinuxDefaultRoute \/ LinuxDetailSettle \/ LinuxMergeAndSelect

InitWindows ==
  /\ platform = "windows"
  /\ runtime \in Runtime
  /\ globals = GlobalsOf(runtime)
  /\ os = OsOf(runtime, platform)
  /\ addressFamily \in AddressFamily
  /\ \/ host = WindowsHostWithoutPowershell
     \/ host = WindowsHostGarbling(addressFamily, <<>>, "Get-NetRoute")
     \/ \E rs \in DistinctSeqsUpTo(NetRoutes(addressFamily), MaxRoutes) :
          \/ host = WindowsHostGarbling(addressFamily, rs, "Get-NetIPAddress")
          \/ \E as \in DistinctSeqsUpTo(NetIpAddresses, MaxNetIpAddresses) :
               host = WindowsHost(addressFamily, rs, as)
  /\ InitCall

\* WindowsPlatform.defaultGateway up to the second await
WindowsNetRoute ==
  /\ platform = "windows"
  /\ pc = "start"
  /\ LET argv == netRouteCommand(addressFamily)
         child == WindowsChild(host, argv)
         o == spawnCommand(runtime, Installed(host, argv), child, FALSE)
         r == WindowsSpawnCommandAndParse(runtime, Installed(host, argv), child)
         ids == [i \in 1..Len(r.val) |-> r.val[i].ifIndex]
     IN  /\ settled' = Append(settled, Settlement(argv, child, FALSE, o))
         /\ IF ~r.ok
            THEN /\ Throw(r.err)
                 /\ issued' = Append(issued, argv)
                 /\ UNCHANGED routes
            ELSE /\ routes' = r.val
                 /\ issued' = issued \o <<argv, netIpAddressCommand(ids)>>
                 /\ pc' = "addresses"
                 /\ UNCHANGED <<result, error>>
  /\ UNCHANGED <<globals, runtime, os, netmaskDigits, platform, addressFamily, host, pending, addrs, interfaces,
                 selected, mac>>

\* WindowsPlatform.defaultGateway after the second await
WindowsNetIpAddress ==
  /\ platform = "windows"
  /\ pc = "addresses"
  /\ LET argv == issued[Len(issued)]
         child == WindowsChild(host, argv)
         o == spawnCommand(runtime, Installed(host, argv), child, FALSE)
         r == WindowsSpawnCommandAndParse(runtime, Installed(host, argv), child)
         ints == WindowsMerge(routes, r.val)
         d == WindowsDefaultInterfaceByAddressFamily(ints, addressFamily)
     IN  /\ settled' = Append(settled, Settlement(argv, child, FALSE, o))
         /\ IF ~r.ok
            THEN /\ Throw(r.err)
                 /\ UNCHANGED <<addrs, interfaces, selected>>
            ELSE /\ addrs' = r.val
                 /\ interfaces' = ints
                 /\ IF d.ok
                    THEN /\ selected' = d.val
                         /\ Return(NetworkDefaultGateway(Str(d.val.IPAddress), Str(d.val.NextHop),
                                                         Str(d.val.InterfaceAlias),
                                                         Num(d.val.PrefixLength)))
                    ELSE /\ selected' = None
                         /\ Throw(d.err)
  /\ UNCHANGED <<globals, runtime, os, netmaskDigits, platform, addressFamily, host, issued, pending, routes, mac>>

NextWindows == WindowsNetRoute \/ WindowsNetIpAddress

InitMac ==
  /\ platform = "darwin"
  /\ runtime \in Runtime
  /\ globals = GlobalsOf(runtime)
  /\ os = OsOf(runtime, platform)
  /\ addressFamily \in AddressFamily
  /\ \/ \E cmd \in {"route", "awk"} : host = MacHostWithout(addressFamily, cmd)
     \/ \E ro \in MacRouteOutputs(addressFamily) :
          \E io \in MacInterfaceOutputsFor(ro) : host = MacHost(addressFamily, ro, io)
  /\ InitCall

\* the record of a settled command of the macOS parser
MacSettlement(argv, input, o) ==
  Settlement(argv, MacChild(host, argv, input), ~Falsy(input), o)

\* the grep of prefixLengthAndIpByAddressFamily for the rows of the family
AddressRowsCommand(af) == grepCommand(IF af = "IPv4" THEN "inet " ELSE "inet6")

\* a thrown error that no promise carries: the call never settles
Crash ==
  /\ pc' = "uncaught"
  /\ UNCHANGED <<result, error>>

\* both valueFromRowKey of the route output started at once
MacIssuedBothRowKeys(argv) == <<argv, grepCommand("gateway"), grepCommand("interface")>>

\* the commands issued when the route query has answered: valueFromRowKey for
\* the gateway has started its grep
MacIssuedAfterRoute(argv) == <<argv, grepCommand("gateway")>>

\* MacOSPlatform.defaultGateway up to the first valueFromRowKey
MacDefaultRoute ==
  /\ platform = "darwin"
  /\ pc = "start"
  /\ LET argv == defaultRouteCommand(addressFamily)
         o == MacSpawner(runtime, host, argv, EmptyOutput)
     IN  /\ settled' = Append(settled, MacSettlement(argv, EmptyOutput, o))
         /\ IF o.st # "resolved"
            THEN /\ Throw(SpawnError)
                 /\ issued' = Append(issued, argv)
                 /\ UNCHANGED mac
            ELSE IF Falsy(o.out)
            THEN /\ Throw(DefaultGatewayNotAvailableError)
                 /\ issued' = Append(issued, argv)
                 /\ UNCHANGED mac
            ELSE /\ mac' = [mac EXCEPT !.outputDefaultRoute = o.out, !.key = "gateway"]
                 /\ issued' = MacIssuedAfterRoute(argv)
                 /\ pc' = "grep"
                 /\ UNCHANGED <<result, error>>
  /\ UNCHANGED <<globals, runtime, os, netmaskDigits, platform, addressFamily, host, pending, routes, addrs,
                 interfaces, selected>>

\* valueFromRowKey from the answer of its grep to its second await
MacRowKeyGrep ==
  /\ platform = "darwin"
  /\ pc = "grep"
  /\ LET argv == grepCommand(mac.key)
         input == IF mac.key = "status" THEN mac.outputInterface
                  ELSE mac.outputDefaultRoute
         o == MacSpawner(runtime, host, argv, input)
     IN  /\ settled' = Append(settled, MacSettlement(argv, input, o))
         /\ IF o.st = "rejected" THEN Throw(SpawnError) /\ UNCHANGED <<mac, issued>>
            ELSE IF o.st = "uncaught" THEN Crash /\ UNCHANGED <<mac, issued>>
            ELSE /\ mac' = [mac EXCEPT !.output = o.out]
                 /\ issued' = Append(issued, awkCommand)
                 /\ pc' = "awk"
                 /\ UNCHANGED <<result, error>>
  /\ UNCHANGED <<globals, runtime, os, netmaskDigits, platform, addressFamily, host, pending, routes, addrs,
                 interfaces, selected>>

\* valueFromRowKey after its second await, and its caller up to the next await
MacRowKeyAwk ==
  /\ platform = "darwin"
  /\ pc = "awk"
  /\ LET o == MacSpawner(runtime, host, awkCommand, mac.output)
         value == StringOf(o.out)
     IN  /\ settled' = Append(settled, MacSettlement(awkCommand, mac.output, o))
         /\ IF o.st = "rejected" THEN Throw(SpawnError) /\ UNCHANGED <<mac, issued>>
            ELSE IF o.st = "uncaught" THEN Crash /\ UNCHANGED <<mac, issued>>
            ELSE IF mac.key = "gateway"
            THEN /\ mac' = [mac EXCEPT !.gateway = Str(value), !.key = "interface"]
                 /\ issued' = Append(issued, grepCommand("interface"))
                 /\ pc' = "grep"
                 /\ UNCHANGED <<result, error>>
            ELSE IF mac.key = "interface"
            THEN /\ mac' = [mac EXCEPT !.defaultInterface = Str(value)]
                 /\ issued' = Append(issued, interfaceDetailsCommand(value))
                 /\ pc' = "ifconfig"
                 /\ UNCHANGED <<result, error>>
            ELSE IF value # DarwinInterfaceStatusActive
            THEN Throw(DefaultInterfaceNotFoundError) /\ UNCHANGED <<mac, issued>>
            ELSE /\ issued' = Append(issued, AddressRowsCommand(addressFamily))
                 /\ pc' = "inet"
                 /\ UNCHANGED <<mac, result, error>>
  /\ UNCHANGED <<globals, runtime, os, netmaskDigits, platform, addressFamily, host, pending, routes, addrs,
                 interfaces, selected>>

\* MacOSPlatform.defaultGateway: the details of the default interface
MacInterfaceDetails ==
  /\ platform = "darwin"
  /\ pc = "ifconfig"
  /\ LET argv == interfaceDetailsCommand(mac.defaultInterface.s)
         o == MacSpawner(runtime, host, argv, EmptyOutput)
     IN  /\ settled' = Append(settled, MacSettlement(argv, EmptyOutput, o))
         /\ IF o.st # "resolved" THEN Throw(SpawnError) /\ UNCHANGED <<mac, issued>>
            ELSE /\ mac' = [mac EXCEPT !.outputInterface = o.out, !.key = "status"]
                 /\ issued' = Append(issued, grepCommand("status"))
                 /\ pc' = "grep"
                 /\ UNCHANGED <<result, error>>
  /\ UNCHANGED <<globals, runtime, os, netmaskDigits, platform, addressFamily, host, pending, routes, addrs,
                 interfaces, selected>>

\* prefixLengthAndIpByAddressFamily after the status check, and the result
MacAddressRows ==
  /\ platform = "darwin"
  /\ pc = "inet"
  /\ LET argv == AddressRowsCommand(addressFamily)
         o == MacSpawner(runtime, host, argv, mac.outputInterface)
         d == DarwinInterface(o.out, addressFamily)
     IN  /\ settled' = Append(settled, MacSettlement(argv, mac.outputInterface, o))
         /\ UNCHANGED issued
         /\ IF o.st = "rejected" THEN Throw(SpawnError) /\ UNCHANGED mac
            ELSE IF o.st = "uncaught" THEN Crash /\ UNCHANGED mac
            ELSE /\ mac' = [mac EXCEPT !.output = o.out]
                 /\ IF d.ok
                    THEN Return(NetworkDefaultGateway(d.inet, mac.gateway,
                                                      mac.defaultInterface, d.prefixlen))
                    ELSE Throw(d.err)
  /\ UNCHANGED <<globals, runtime, os, netmaskDigits, platform, addressFamily, host, pending, routes, addrs,
                 interfaces, selected>>

NextMac ==
  \/ MacDefaultRoute
  \/ MacRowKeyGrep
  \/ MacRowKeyAwk
  \/ MacInterfaceDetails
  \/ MacAddressRows

Init == InitLinux \/ InitMac \/ InitWindows

Next == NextLinux \/ NextMac \/ NextWindows

Spec == Init /\ [][Next]_vars

-----------------------------------------------------------------------------
(* The call from currentPlatform on: the runtime reports the operating      *)
(* system's name, platformFromRuntimeOs picks the parser or throws.         *)

\* some hosts that report the name: BSD userland under "darwin" and "freebsd",
\* iproute2 under "linux" and "android", PowerShell under the Windows names
HostsOf(name, af) ==
  IF name \in {"darwin", "freebsd"}
  THEN {MacHostWithout(af, "awk"),
        MacHost(af, Text(<<<<"gateway:", GatewayOf(af)>>, <<"interface:", "en0">>>>),
                Text(<<<<"inet", "192.168.1.15", "netmask", "0xffffff00">>,
                       <<"inet6", "fe80::15%en0", "prefixlen", "64">>,
                       <<"status:", "active">>>>))}
  ELSE IF name \in {"linux", "android"}
  THEN {LinuxHostWithoutIp,
        LinuxHost(af, JsonArray(<<IpRoute(Str(GatewayOf(af)), "eth0", Num(5))>>),
                  JsonArray(<<IpAddr("eth0", "UP",
                                     <<IpAddrInfo(UnixAddressFamily(af), "192.168.1.15", 24)>>)>>),
                  IdleAddrOutput("wlan0"))}
  ELSE {WindowsHostWithoutPowershell,
        WindowsHost(af, <<NetRoute(7, GatewayOf(af), 5)>>,
                    <<NetIpAddress(7, "192.168.1.15", "Ethernet", WindowsAddressFamily(af), 24, 4)>>)}

PlatInit ==
  /\ runtime \in Runtime
  /\ globals = GlobalsOf(runtime)
  /\ os \in OsNames
  /\ platform = NoPlatform
  /\ addressFamily \in AddressFamily
  /\ host \in HostsOf(os, addressFamily)
  /\ pc = "platform"
  /\ NothingYet

\* currentPlatform: platforms[runtime.platform()]
CurrentPlatform ==
  /\ pc = "platform"
  /\ LET p == platformFromRuntimeOs(runtime, os)
     IN  IF p.ok
         THEN /\ platform' = p.val
              /\ pc' = "start"
              /\ UNCHANGED <<result, error>>
         ELSE /\ Throw(PlatformNotSupportedError)
              /\ UNCHANGED platform
  /\ UNCHANGED <<globals, runtime, os, netmaskDigits, addressFamily, host, issued, settled, pending, routes,
                 addrs, interfaces, selected, mac>>

PlatNext == CurrentPlatform \/ NextLinux \/ NextMac \/ NextWindows

PlatSpec == PlatInit /\ [][PlatNext]_vars

-----------------------------------------------------------------------------
(* The call from currentRuntime on: the environment has some of the globals *)
(* Bun, Deno and process, with or without their version.                    *)

\* no runtime is selected yet ("none"); the checks are evaluated when the
\* module is loaded, before any call
RuntimeInit ==
  /\ globals \in [Bun : {"absent", "unversioned", "versioned"},
                  Deno : {"absent", "unversioned", "versioned"},
                  process : {"absent", "bare", "unversioned", "versioned"}]
  /\ runtime = "none"
  /\ os \in OsNames
  /\ platform = NoPlatform
  /\ addressFamily \in AddressFamily
  /\ host \in HostsOf(os, addressFamily)
  /\ pc = "runtime"
  /\ NothingYet

\* the load of the module and currentRuntime up to new RuntimeClass()
CurrentRuntime ==
  /\ pc = "runtime"
  /\ LET r == currentRuntime(globals)
     IN  IF globals.process = "bare"
         THEN Throw("TypeError") /\ UNCHANGED runtime
         ELSE IF ~r.ok
         THEN Throw(RuntimeNotSupportedError) /\ UNCHANGED runtime
         ELSE /\ runtime' = r.val
              /\ pc' = "platform"
              /\ UNCHANGED <<result, error>>
  /\ UNCHANGED <<globals, os, netmaskDigits, platform, addressFamily, host, issued, settled,
                 pending, routes, addrs, interfaces, selected, mac>>

RuntimeSpec == RuntimeInit /\ [][CurrentRuntime \/ PlatNext]_vars

-----------------------------------------------------------------------------
(* The interface selectors on their own: defaultInterfaceByAddressFamily of *)
(* Linux and of Windows applied to every list of at most MaxCandidates      *)
(* candidates.  The i-th candidate of a list carries i in its name.         *)

LinuxCandidate(i, metric, operstate, family) ==
  LinuxInterface(IpRoute(Str("192.168.1.1"), "eth" \o ToString(i), metric),
                 IpAddr("eth" \o ToString(i), operstate, <<>>),
                 IpAddrInfo(family, "192.168.1.1" \o ToString(i), 24))

LinuxCandidates(i) ==
  {LinuxCandidate(i, m, st, f) : m \in {Num(5), Num(10), Undefined},
                                 st \in {"UP", "DOWN"}, f \in {"inet", "inet6"}}

WindowsCandidate(i, metric, state, family) ==
  WindowsInterface([NetRoute(i, "192.168.1.1", 0) EXCEPT !.InterfaceMetric = metric],
                   NetIpAddress(i, "192.168.1.1" \o ToString(i),
                                "Ethernet " \o ToString(i), family, 24, state))

WindowsCandidates(i) ==
  {WindowsCandidate(i, m, st, f) : m \in {Num(5), Num(10), Undefined},
                                   st \in {4, 3}, f \in {2, 23}}

\* the lists of n candidates
RECURSIVE CandidateLists(_, _)
CandidateLists(pf, n) ==
  IF n = 0 THEN {<<>>}
  ELSE {Append(l, c) : l \in CandidateLists(pf, n - 1),
                       c \in IF pf = "linux" THEN LinuxCandidates(n)
                             ELSE WindowsCandidates(n)}

\* no command is run
NoHost == [missing |-> {}]

SelInit ==
  /\ platform \in {"linux", "windows"}
  /\ runtime = "node"
  /\ globals = GlobalsOf(runtime)
  /\ os = OsOf(runtime, platform)
  /\ addressFamily \in AddressFamily
  /\ host = NoHost
  /\ \E n \in 0..MaxCandidates : interfaces \in CandidateLists(platform, n)
  /\ pc = "select"
  /\ netmaskDigits = <<>>
  /\ issued = <<>>
  /\ settled = <<>>
  /\ pending = {}
  /\ routes = <<>>
  /\ addrs = <<>>
  /\ selected = None
  /\ mac = NoMac
  /\ result = None
  /\ error = ""

SelLinux ==
  /\ platform = "linux"
  /\ pc = "select"
  /\ LET d == LinuxDefaultInterfaceByAddressFamily(interfaces, addressFamily)
     IN  /\ selected' = d.val
         /\ error' = d.err
  /\ pc' = "selected"
  /\ UNCHANGED <<globals, runtime, os, netmaskDigits, platform, addressFamily, host, issued, settled, pending,
                 routes, addrs, interfaces, mac, result>>

SelWindows ==
  /\ platform = "windows"
  /\ pc = "select"
  /\ LET d == WindowsDefaultInterfaceByAddressFamily(interfaces, addressFamily)
     IN  /\ selected' = d.val
         /\ error' = d.err
  /\ pc' = "selected"
  /\ UNCHANGED <<globals, runtime, os, netmaskDigits, platform, addressFamily, host, issued, settled, pending,
                 routes, addrs, interfaces, mac, result>>

SelNext == SelLinux \/ SelWindows

SelSpec == SelInit /\ [][SelNext]_vars

-----------------------------------------------------------------------------
(* netmaskToPrefixLength on its own: the digits are a run of f, one digit   *)
(* and a run of 0, as in the masks ifconfig prints and longer.              *)

MaxOnes == 14
MaxZeros == 2

Netmasks ==
  {[i \in 1..a |-> 15] \o <<d>> \o [i \in 1..z |-> 0] :
     a \in 0..MaxOnes, d \in 0..15, z \in 0..MaxZeros}

NetmaskInit ==
  /\ platform = "darwin"
  /\ runtime = "node"
  /\ globals = GlobalsOf(runtime)
  /\ os = OsOf(runtime, platform)
  /\ addressFamily = "IPv4"
  /\ host = NoHost
  /\ pc = "netmask"
  /\ issued = <<>>
  /\ settled = <<>>
  /\ pending = {}
  /\ routes = <<>>
  /\ addrs = <<>>
  /\ interfaces = <<>>
  /\ selected = None
  /\ mac = NoMac
  /\ result = None
  /\ error = ""
  /\ netmaskDigits \in Netmasks

NetmaskToPrefixLength ==
  /\ pc = "netmask"
  /\ LET r == PrefixLengthOfDigits(netmaskDigits)
     IN  IF r.ok THEN Return(r.val) ELSE Throw(r.err)
  /\ UNCHANGED <<globals, runtime, os, netmaskDigits, platform, addressFamily, host, issued, settled,
                 pending, routes, addrs, interfaces, selected, mac>>

NetmaskSpec == NetmaskInit /\ [][NetmaskToPrefixLength]_vars

-----------------------------------------------------------------------------
(* valueFromKey alone: a text of at most MaxTokens tokens on two lines, and *)
(* one of the keys prefixLengthAndIpByAddressFamily looks for.              *)

MaxTokens == 3

KeyTokens == {"inet", "inet6", "netmask", "10.0.0.7"}

KeyInit ==
  /\ platform = "darwin"
  /\ runtime = "node"
  /\ globals = GlobalsOf(runtime)
  /\ os = OsOf(runtime, platform)
  /\ addressFamily = "IPv4"
  /\ host = NoHost
  /\ pc = "valueFromKey"
  /\ netmaskDigits = <<>>
  /\ issued = <<>>
  /\ settled = <<>>
  /\ pending = {}
  /\ routes = <<>>
  /\ addrs = <<>>
  /\ interfaces = <<>>
  /\ selected = None
  /\ result = None
  /\ error = ""
  /\ \E ts \in SeqsUpTo(KeyTokens, MaxTokens) :
       \E j \in 0..Len(ts) :
         \E key \in {"inet", "inet6", "netmask"} :
           mac = [NoMac EXCEPT !.key = key,
                               !.output = Text(<<SubSeq(ts, 1, j), SubSeq(ts, j + 1, Len(ts))>>)]

ValueFromKey ==
  /\ pc = "valueFromKey"
  /\ Return(valueFromKey(mac.output, mac.key))
  /\ UNCHANGED <<globals, runtime, os, netmaskDigits, platform, addressFamily, host, issued, settled,
                 pending, routes, addrs, interfaces, selected, mac>>

KeySpec == KeyInit /\ [][ValueFromKey]_vars

-----------------------------------------------------------------------------
(* prefixLengthAndIpByAddressFamily from its grep for the address rows on:  *)
(* an interface of at most MaxAddressRows addresses, some of them printed   *)
(* without netmask or prefixlen.                                            *)

MaxAddressRows == 2

AddressRows == MacInetRows \cup {<<"inet", "10.0.0.8">>, <<"inet6", "fe80::17%en0">>}

AddressInit ==
  /\ platform = "darwin"
  /\ runtime = "deno"
  /\ globals = GlobalsOf(runtime)
  /\ os = OsOf(runtime, platform)
  /\ addressFamily \in AddressFamily
  /\ host = NoHost
  /\ pc = "prefixLengthAndIp"
  /\ netmaskDigits = <<>>
  /\ issued = <<>>
  /\ settled = <<>>
  /\ pending = {}
  /\ routes = <<>>
  /\ addrs = <<>>
  /\ interfaces = <<>>
  /\ selected = None
  /\ result = None
  /\ error = ""
  /\ \E rows \in DistinctSeqsUpTo(AddressRows, MaxAddressRows) :
       mac = [NoMac EXCEPT !.outputInterface = Text(rows \o <<<<"status:", "active">>>>)]

PrefixLengthAndIp ==
  /\ pc = "prefixLengthAndIp"
  /\ LET outputIPv == Trim(Grep(AddressRowsCommand(addressFamily)[2], mac.outputInterface).stdout)
         d == DarwinInterface(outputIPv, addressFamily)
     IN  /\ mac' = [mac EXCEPT !.output = outputIPv]
         /\ IF d.ok THEN Return([prefixlen |-> d.prefixlen, inet |-> d.inet])
            ELSE Throw(d.err)
  /\ UNCHANGED <<globals, runtime, os, netmaskDigits, platform, addressFamily, host, issued, settled,
                 pending, routes, addrs, interfaces, selected>>

AddressSpec == AddressInit /\ [][PrefixLengthAndIp]_vars


-----------------------------------------------------------------------------
(* What the host answers to the query for the default routes of the        *)
(* requested family, and what a call has received                           *)

\* the default-route query reports that the family has no default route:
\* ip prints [], route prints nothing, PowerShell has no row to convert
NoDefaultRoute ==
  /\ host.missing = {}
  /\ CASE platform = "linux" ->
            host.routeTable[ipDefaultRouteCommand(addressFamily)[2]] = JsonArray(<<>>)
       [] platform = "darwin" ->
            Trim(host.routeTable[defaultRouteCommand(addressFamily)[4]]) = EmptyOutput
       [] platform = "windows" ->
            /\ host.garbled = {}
            /\ host.netRoutes[netRouteCommand(addressFamily)[3]] = <<>>

\* the process of the i-th settled command failed: it could not be started
\* or it exited with a status other than 0
ProcessFailed(i) == ~settled[i].spawned \/ settled[i].code # 0

\* the output of the i-th settled command was handed to JSON.parse, which threw
ParseFailed(i) ==
  /\ settled[i].st = "resolved"
  /\ \/ platform = "linux"
     \/ platform = "windows" /\ ~Falsy(settled[i].out)
  /\ ~JSONParse(settled[i].out).ok

\* the i-th settled command is a failed step of the call
StepFailedAt(i) == ProcessFailed(i) \/ ParseFailed(i)

\* the result is the selected candidate's fields (Linux, Windows) or the
\* values extracted from the two outputs (macOS)
BuiltFromOneCandidate ==
  CASE platform = "linux" ->
         /\ selected \in Range(interfaces)
         /\ result = NetworkDefaultGateway(Str(selected.local), selected.gateway,
                                           Str(selected.ifname), Num(selected.prefixlen))
    [] platform = "windows" ->
         /\ selected \in Range(interfaces)
         /\ result = NetworkDefaultGateway(Str(selected.IPAddress), Str(selected.NextHop),
                                           Str(selected.InterfaceAlias),
                                           Num(selected.PrefixLength))
    [] platform = "darwin" ->
         /\ result.gateway = mac.gateway
         /\ result.interface = mac.defaultInterface
         /\ result.ip = DarwinInterface(mac.output, addressFamily).inet
         /\ result.prefixLength = DarwinInterface(mac.output, addressFamily).prefixlen

-----------------------------------------------------------------------------
(* Claims *)

\* C1: on every platform and for both families, when the default-route query
\* reports that the family has no default route, the call fails at that query
\* with DefaultGatewayNotAvailableError and no result; nothing else is raised.
C1_NoDefaultRouteFails ==
  NoDefaultRoute =>
    \/ pc = "start"
    \/ /\ pc = "done"
       /\ error = DefaultGatewayNotAvailableError
       /\ result = None
       /\ Len(issued) = 1

C1_Witness ==
  /\ NoDefaultRoute
  /\ pc = "done"
  /\ error = DefaultGatewayNotAvailableError
  /\ platform = "darwin"
  /\ runtime = "node"

\* C2: a call that has settled has exactly one of a result and an error, a call
\* that has not has neither; a result is returned only when no step of the call
\* failed (no process failed, no output failed to parse, every detail query of
\* Linux answered), and it is built from exactly one candidate.
C2_OneOutcome ==
  /\ pc = "done" => ((result = None) # (error = ""))
  /\ pc # "done" => (result = None /\ error = "")
  /\ result # None =>
       /\ \A i \in 1..Len(settled) : ~StepFailedAt(i)
       /\ pending = {}
       /\ BuiltFromOneCandidate

\* C3: whenever a call returns a result, ip, gateway and interface are strings
\* and prefixLength is a number; none of the four is undefined or null.
C3_FieldsDefined ==
  result # None =>
    /\ TypeOf(result.ip) = "string"
    /\ TypeOf(result.gateway) = "string"
    /\ TypeOf(result.interface) = "string"
    /\ TypeOf(result.prefixLength) = "number"

\* an address entry of the requested family on the host carries ip
AddressOfFamily(ip) ==
  CASE platform = "linux" ->
         \E d \in DOMAIN host.addrTable :
           /\ host.addrTable[d].kind = "json"
           /\ \E k \in 1..Len(host.addrTable[d].val) :
                \E e \in Range(host.addrTable[d].val[k].addr_info) :
                  e.family = UnixAddressFamily(addressFamily) /\ Str(e.local) = ip
    [] platform = "windows" ->
         \E a \in Range(host.netIpAddresses) :
           a.AddressFamily = WindowsAddressFamily(addressFamily) /\ Str(a.IPAddress) = ip
    [] platform = "darwin" ->
         \E d \in DOMAIN host.ifconfig :
           \E row \in Range(Lines(host.ifconfig[d])) :
             /\ Len(row) >= 2
             /\ row[1] = UnixAddressFamily(addressFamily)
             /\ Str(row[2]) = ip

\* a default route of the requested family on the host has the next hop gateway
NextHopOfFamily(gateway) ==
  CASE platform = "linux" ->
         LET o == host.routeTable[ipDefaultRouteCommand(addressFamily)[2]]
         IN  \E r \in Range(o.val) : r.gateway.t = "string" /\ r.gateway = gateway
    [] platform = "windows" ->
         \E r \in Range(host.netRoutes[netRouteCommand(addressFamily)[3]]) :
           Str(r.NextHop) = gateway
    [] platform = "darwin" ->
         \E row \in Range(Lines(host.routeTable[defaultRouteCommand(addressFamily)[4]])) :
           Len(row) >= 2 /\ row[1] = "gateway:" /\ Str(row[2]) = gateway

\* C4: whenever a call for family F returns a result, its ip is the address of
\* an address entry of family F, its gateway is the next hop of a default route
\* of family F, and its interface is a non-empty name.
C4_Provenance ==
  result # None =>
    /\ AddressOfFamily(result.ip)
    /\ NextHopOfFamily(result.gateway)
    /\ result.interface.t = "string"
    /\ result.interface.s # ""

PrefixLengthBound(af) == IF af = "IPv4" THEN 32 ELSE 128

\* C5: whenever a call returns a result, prefixLength is an integer between 0
\* and 32 (IPv4) or 128 (IPv6); a value outside the range in the output of the
\* operating system makes the call fail.
C5_PrefixLengthInRange ==
  result # None =>
    /\ result.prefixLength.t = "number"
    /\ result.prefixLength.n >= 0
    /\ result.prefixLength.n <= PrefixLengthBound(addressFamily)

-----------------------------------------------------------------------------
(* Selection: the candidates a claim speaks of, read off the candidate list *)

OfFamily(c) ==
  IF platform = "linux" THEN c.family = UnixAddressFamily(addressFamily)
  ELSE c.AddressFamily = WindowsAddressFamily(addressFamily)

Usable(c) ==
  IF platform = "linux" THEN c.operstate = "UP" ELSE c.AddressState = 4

MetricOf(c) == IF platform = "linux" THEN c.metric ELSE c.InterfaceMetric

\* the metric as a number: ip prints no metric for a route of metric 0
MetricValue(c) == IF MetricOf(c).t = "number" THEN MetricOf(c).n ELSE 0

\* the usable candidates of the requested family, in list order
Eligible == SelectSeq(interfaces, LAMBDA c : OfFamily(c) /\ Usable(c))

\* the positions in Eligible of the candidates of lowest metric
Lowest ==
  {i \in 1..Len(Eligible) :
     \A j \in 1..Len(Eligible) : MetricValue(Eligible[i]) <= MetricValue(Eligible[j])}

AllMetricsPresent == \A i \in 1..Len(Eligible) : MetricOf(Eligible[i]).t = "number"

DistinctMetrics ==
  \A i, j \in 1..Len(Eligible) :
    i # j => MetricValue(Eligible[i]) # MetricValue(Eligible[j])

\* the selector of the platform applied to a list
Selection(ints) ==
  IF platform = "linux" THEN LinuxDefaultInterfaceByAddressFamily(ints, addressFamily).val
  ELSE WindowsDefaultInterfaceByAddressFamily(ints, addressFamily).val

Reorderings(ints) ==
  {[i \in 1..Len(ints) |-> ints[f[i]]] : f \in Permutations(1..Len(ints))}

\* C6: for every list with a usable candidate of the requested family, the
\* selected candidate's metric is at most that of every other such candidate,
\* and when their metrics are pairwise distinct every reordering of the list
\* selects the same candidate.
C6_LowestMetric ==
  (pc = "selected" /\ Eligible # <<>>) =>
    /\ selected # None
    /\ \A i \in 1..Len(Eligible) : MetricValue(selected) <= MetricValue(Eligible[i])
    /\ DistinctMetrics => \A p \in Reorderings(interfaces) : Selection(p) = selected

\* C7 as stated: when several usable candidates of the requested family share
\* the lowest metric, the first of them in list order is selected.
C7_FirstOfTies ==
  (pc = "selected" /\ AllMetricsPresent /\ Cardinality(Lowest) >= 2) =>
    selected = Eligible[Min(Lowest)]

\* C7 as amended: the selected candidate is the first usable candidate of the
\* requested family whose metric is strictly less (JavaScript <) than that of
\* every such candidate after it; so, when every metric is present and several
\* candidates share the lowest, the last of them in list order is selected.
C7_LastOfTies ==
  (pc = "selected" /\ Eligible # <<>>) =>
    \E k \in 1..Len(Eligible) :
      /\ selected = Eligible[k]
      /\ \A j \in (k + 1)..Len(Eligible) : JsLess(MetricOf(Eligible[k]), MetricOf(Eligible[j]))
      /\ \A i \in 1..(k - 1) :
           \E j \in (i + 1)..Len(Eligible) :
             ~JsLess(MetricOf(Eligible[i]), MetricOf(Eligible[j]))
      /\ AllMetricsPresent => k = Max(Lowest)

C7_Witness ==
  /\ pc = "selected"
  /\ AllMetricsPresent
  /\ Cardinality(Lowest) >= 2
  /\ Len(Eligible) = 3
  /\ selected = Eligible[Max(Lowest)]
  /\ Max(Lowest) < Len(Eligible)

\* C8: a candidate whose state is not usable is never the selected candidate,
\* whatever its metric.
C8_NeverUnusable ==
  selected # None => (selected \in Range(interfaces) /\ Usable(selected))

C8_Witness ==
  /\ pc = "selected"
  /\ selected # None
  /\ \E c \in Range(interfaces) :
       /\ OfFamily(c)
       /\ ~Usable(c)
       /\ MetricOf(c).t = "number"
       /\ \A i \in 1..Len(Eligible) : MetricValue(c) < MetricValue(Eligible[i])

-----------------------------------------------------------------------------
(* The join of a call *)

\* the call has computed the joined candidate list: on Linux every detail
\* query was parsed, on Windows the address rows were
Joined ==
  /\ pc = "done"
  /\ \/ /\ platform = "linux"
        /\ routes # <<>>
        /\ pending = {}
        /\ \A i \in 1..Len(addrs) : addrs[i] # <<>>
     \/ /\ platform = "windows"
        /\ addrs # <<>>

\* C9: on Linux and on Windows, when the joined candidate list has candidates
\* of the requested family but none of them usable, the call fails with
\* NoAvailableNetworkError.
C9_NoneUsable ==
  (/\ Joined
   /\ \E c \in Range(interfaces) : OfFamily(c)
   /\ \A c \in Range(interfaces) : OfFamily(c) => ~Usable(c)) =>
    (error = NoAvailableNetworkError /\ result = None)

\* the address rows PowerShell has for the interfaces of the routes received
WindowsRowsOfRoutes ==
  SelectSeq(host.netIpAddresses,
            LAMBDA a : a.ifIndex \in {routes[i].ifIndex : i \in 1..Len(routes)})

\* routes were received and nothing kept the address queries from answering;
\* the candidates are the join of the routes with what the host has for them
JoinOfHost ==
  IF platform = "linux"
  THEN mergeRoutesWithAddresseses(
         routes, Flat([i \in 1..Len(routes) |-> host.addrTable[routes[i].dev].val]))
  ELSE WindowsMerge(routes, WindowsRowsOfRoutes)

RoutesAnswered ==
  /\ pc = "done"
  /\ platform \in {"linux", "windows"}
  /\ routes # <<>>
  /\ host.missing = {}
  /\ platform = "linux" => \A i \in 1..Len(routes) : host.addrTable[routes[i].dev].kind = "json"
  /\ platform = "windows" => host.garbled = {}

\* C10 as stated: on Linux and on Windows, when default routes exist and the
\* join holds no candidate of the requested family - also when no address row
\* matches any route's interface - the call fails with
\* DefaultInterfaceNotFoundError.
C10_NoFamilyCandidate ==
  (RoutesAnswered /\ \A c \in Range(JoinOfHost) : ~OfFamily(c)) =>
    (error = DefaultInterfaceNotFoundError /\ result = None)

\* C10 as amended: when the join was computed and holds no candidate of the
\* requested family, the call fails with DefaultInterfaceNotFoundError; on
\* Windows, when PowerShell has no address row for any route's interface, the
\* address query prints nothing and the call fails before the join with
\* DefaultGatewayNotAvailableError.
C10_JoinedNoFamily ==
  /\ (Joined /\ \A c \in Range(interfaces) : ~OfFamily(c)) =>
       (error = DefaultInterfaceNotFoundError /\ result = None)
  /\ (RoutesAnswered /\ platform = "windows" /\ WindowsRowsOfRoutes = <<>>) =>
       (error = DefaultGatewayNotAvailableError /\ result = None /\ ~Joined)
  /\ (RoutesAnswered /\ \A c \in Range(JoinOfHost) : ~OfFamily(c)) =>
       (Joined \/ (platform = "windows" /\ WindowsRowsOfRoutes = <<>>))

C10_Witness ==
  /\ Joined
  /\ platform = "windows"
  /\ Len(interfaces) = 2
  /\ \A c \in Range(interfaces) : ~OfFamily(c)
  /\ error = DefaultInterfaceNotFoundError

-----------------------------------------------------------------------------
(* The executors.                                                           *)

\* C11: on every runtime, with or without stdin, a command whose process could
\* not be spawned or exited with a non-zero status makes spawnCommand reject;
\* it never resolves with what such a process wrote
C11_FailedProcessRejects ==
  \A i \in 1..Len(settled) : ProcessFailed(i) => settled[i].st = "rejected"

\* the commands issued when the i-th settled one failed: on Linux under Deno
\* and Bun the route query alone or with its detail queries, elsewhere the i
\* commands run so far
IssuedUpTo(i) ==
  IF platform = "linux" /\ runtime # "node"
  THEN (IF i = 1 THEN 1 ELSE 1 + Len(routes))
  ELSE i

\* C12: a failed step is the last one of its call: nothing is issued or run
\* again after it, and the call fails, with JSONParsingSpawnerOutputError
\* when the step was a parse
C12_FailureTerminal ==
  \A i \in 1..Len(settled) :
     StepFailedAt(i) =>
       /\ i = Len(settled)
       /\ Len(issued) = IssuedUpTo(i)
       /\ pc = "done"
       /\ result = None
       /\ error # ""
       /\ ParseFailed(i) => error = JSONParsingSpawnerOutputError

-----------------------------------------------------------------------------
(* The platform picked.                                                     *)

\* the (runtime, os) pairs platformFromRuntimeOs maps to Windows
NamesWindows == (os = "win32" /\ runtime \in {"bun", "node"}) \/ (os = "windows" /\ runtime = "deno")

\* C13: once currentPlatform has run, the parser is the macOS one for 'darwin'
\* and the Linux one for 'linux' under every runtime, the Windows one for
\* 'win32' under Bun and Node and for 'windows' under Deno; for every other
\* pair the call has failed with PlatformNotSupportedError, with no parser,
\* no command and no result
C13_PlatformOfRuntimeOs ==
  pc # "platform" =>
    IF os = "darwin" THEN platform = "darwin"
    ELSE IF os = "linux" THEN platform = "linux"
    ELSE IF NamesWindows THEN platform = "windows"
    ELSE /\ pc = "done"
         /\ error = PlatformNotSupportedError
         /\ platform = NoPlatform
         /\ issued = <<>>
         /\ result = None

C13_Witness ==
  /\ pc = "done"
  /\ error = PlatformNotSupportedError
  /\ runtime = "deno"
  /\ os = "win32"

-----------------------------------------------------------------------------
(* The prefix length of a netmask.                                          *)

\* the number of set bits of the integer the digits spell
SetBits(digits) == Sum([i \in 1..Len(digits) |-> BitCount(digits[i])])

\* C14: netmaskToPrefixLength returns the number of set bits of the netmask
\* read as a hexadecimal integer, and fails with PrefixLengthNotValidError
\* exactly when that number exceeds 32
C14_SetBitsOfNetmask ==
  pc = "done" =>
    IF SetBits(netmaskDigits) > 32
    THEN error = PrefixLengthNotValidError /\ result = None
    ELSE result = Num(SetBits(netmaskDigits)) /\ error = ""

-----------------------------------------------------------------------------
(* The result on Linux.                                                     *)

\* what the host prints for the route query of the family, and for the
\* detail query of device d
LinuxRouteOutput == host.routeTable[ipDefaultRouteCommand(addressFamily)[2]]
LinuxAddrOutput(d) == host.addrTable[d]

\* one default route, and one address record for its device that is UP and
\* has one address entry, of the requested family
OneRouteOneAddress ==
  /\ platform = "linux"
  /\ host.missing = {}
  /\ LinuxRouteOutput.kind = "json"
  /\ Len(LinuxRouteOutput.val) = 1
  /\ LET d == LinuxRouteOutput.val[1].dev
     IN  /\ LinuxAddrOutput(d).kind = "json"
         /\ Len(LinuxAddrOutput(d).val) = 1
         /\ LinuxAddrOutput(d).val[1].ifname = d
         /\ LinuxAddrOutput(d).val[1].operstate = "UP"
         /\ Len(LinuxAddrOutput(d).val[1].addr_info) = 1
         /\ LinuxAddrOutput(d).val[1].addr_info[1].family = UnixAddressFamily(addressFamily)

\* C15: on Linux a finished call on a host with one default route (g, d, m)
\* and one UP address record for d with one entry (a, p) of the family has
\* returned {ip: a, gateway: g, interface: d, prefixLength: p}; every result
\* is the selected candidate's local, gateway, ifname and prefixlen
C15_LinuxResult ==
  /\ (OneRouteOneAddress /\ pc = "done") =>
       LET r == LinuxRouteOutput.val[1]
           ai == LinuxAddrOutput(r.dev).val[1].addr_info[1]
       IN  /\ error = ""
           /\ result # None
           /\ result.ip = Str(ai.local)
           /\ result.gateway = r.gateway
           /\ result.interface = Str(r.dev)
           /\ result.prefixLength = Num(ai.prefixlen)
  /\ (platform = "linux" /\ result # None) =>
       /\ selected \in Range(interfaces)
       /\ result.ip = Str(selected.local)
       /\ result.gateway = selected.gateway
       /\ result.interface = Str(selected.ifname)
       /\ result.prefixLength = Num(selected.prefixlen)

C15_Witness ==
  /\ OneRouteOneAddress
  /\ pc = "done"
  /\ result # None
  /\ result.gateway = Str(GatewayOf(addressFamily))

-----------------------------------------------------------------------------
(* The interface details on macOS.                                          *)

\* the command whose process ended last
LastSettled == settled[Len(settled)]

\* the rows of the requested family in the interface detail output
RowsOfFamily ==
  SelectSeq(Lines(mac.outputInterface),
            LAMBDA l : l # <<>> /\ l[1] = UnixAddressFamily(addressFamily))

\* the grep for the address rows has run, on a detail output without a row
\* of the requested family
NoAddressRow ==
  /\ platform = "darwin"
  /\ settled # <<>>
  /\ LastSettled.argv = AddressRowsCommand(addressFamily)
  /\ LastSettled.spawned
  /\ RowsOfFamily = <<>>

\* C16: on macOS, when the interface is active and its detail output has no
\* address row of the requested family, the call has failed with
\* DeviceIpNotFoundError once the grep for those rows has run, on every runtime
C16_DeviceIpNotFound ==
  NoAddressRow => (pc = "done" /\ error = DeviceIpNotFoundError /\ result = None)

\* what grep status | awk '{print $2}' print for the interface detail output
StatusOfInterface ==
  StringOf(Trim(Awk(Trim(Grep("status", mac.outputInterface).stdout)).stdout))

\* the status extraction is over: its grep has run and the call is past it
StatusExtracted ==
  /\ platform = "darwin"
  /\ mac.key = "status"
  /\ \E i \in 1..Len(settled) : settled[i].argv = grepCommand("status")
  /\ pc \notin {"grep", "awk"}

\* C17: on macOS, when the status of the interface detail output is not
\* exactly "active" (no status row included), the call has failed with
\* DefaultInterfaceNotFoundError once the status extraction is over, and the
\* grep for the address rows was never issued
C17_NotActive ==
  (StatusExtracted /\ StatusOfInterface # DarwinInterfaceStatusActive) =>
    /\ pc = "done"
    /\ error = DefaultInterfaceNotFoundError
    /\ AddressRowsCommand(addressFamily) \notin Range(issued)

-----------------------------------------------------------------------------
(* The route query on Linux.                                                *)

\* ip has run for the default route and printed nothing but blanks
LinuxEmptyRouteOutput ==
  /\ platform = "linux"
  /\ host.missing = {}
  /\ Trim(LinuxRouteOutput) = EmptyOutput
  /\ pc # "start"

\* C18: on Linux, when the default-route command printed no character, the
\* call has failed with DefaultGatewayNotAvailableError
C18_EmptyOutputNotAvailable ==
  LinuxEmptyRouteOutput => (pc = "done" /\ error = DefaultGatewayNotAvailableError)

\* C18 as the code has it: no character is no JSON, and the call has failed
\* at that query with JSONParsingSpawnerOutputError
C18_EmptyOutputNotParsed ==
  LinuxEmptyRouteOutput =>
    /\ pc = "done"
    /\ error = JSONParsingSpawnerOutputError
    /\ result = None
    /\ Len(issued) = 1

C18_Witness ==
  /\ LinuxEmptyRouteOutput
  /\ pc = "done"
  /\ runtime = "deno"
  /\ Len(settled) = 1
  /\ settled[1].st = "resolved"

-----------------------------------------------------------------------------
(* The fan-out and fan-in of the detail queries on Linux.                   *)

\* the i-th settled command is a detail query that failed
DetailFailed(i) == i > 1 /\ StepFailedAt(i)

\* C19: on Linux a detail query is issued only when the route query has
\* answered with a list that is not empty; a result is returned only when
\* every detail query has resolved and parsed; once a detail query has failed
\* the call returns no result and ends with an execution or parsing error
C19_FanOutFanIn ==
  platform = "linux" =>
    /\ Len(issued) > 1 =>
         /\ settled # <<>>
         /\ settled[1].argv = ipDefaultRouteCommand(addressFamily)
         /\ settled[1].st = "resolved"
         /\ JSONParse(settled[1].out).ok
         /\ routes = JSONParse(settled[1].out).val
         /\ routes # <<>>
         /\ \A k \in 2..Len(issued) : issued[k][3] = "addr"
    /\ result # None =>
         /\ pending = {}
         /\ Len(settled) = 1 + Len(routes)
         /\ \A i \in 1..Len(settled) : settled[i].st = "resolved" /\ ~StepFailedAt(i)
         /\ \A k \in 1..Len(routes) :
              \E i \in 2..Len(settled) : settled[i].argv = ipInterfaceDetailsCommand(routes[k].dev)
    /\ (\E i \in 1..Len(settled) : DetailFailed(i)) =>
         /\ result = None
         /\ pc \in {"details", "done"}
         /\ pc = "done" => error \in {SpawnError, JSONParsingSpawnerOutputError}

\* a detail query failed after another had resolved, and the call failed
C19_Witness ==
  /\ platform = "linux"
  /\ pc = "done"
  /\ Len(settled) = 3
  /\ ~StepFailedAt(2)
  /\ DetailFailed(3)
  /\ error = JSONParsingSpawnerOutputError

-----------------------------------------------------------------------------
(* One command at a time on macOS and Windows.                              *)

\* the interface indexes of the parsed route rows
RouteIds == [i \in 1..Len(routes) |-> routes[i].ifIndex]

\* C20: on macOS and Windows at most one command is in flight, and commands
\* end in the order they were issued; the Windows address query is issued
\* when the route query's output is parsed, with the rows' interface indexes;
\* ifconfig is issued when the interface name is extracted, for that name;
\* every awk is issued when the grep before it has resolved
C20_OneAtATime ==
  platform \in {"darwin", "windows"} =>
    /\ Len(issued) - Len(settled) \in {0, 1}
    /\ \A i \in 1..Len(settled) : settled[i].argv = issued[i]
    /\ \A k \in 2..Len(issued) : settled[k - 1].st = "resolved"
    /\ (platform = "windows" /\ Len(issued) > 1) =>
         /\ JSONParse(settled[1].out).ok
         /\ Len(routes) > 0
         /\ issued[2] = netIpAddressCommand(RouteIds)
    /\ \A k \in 1..Len(issued) :
         /\ issued[k][1] = "ifconfig" =>
              /\ k > 2
              /\ settled[k - 1].argv = awkCommand
              /\ settled[k - 2].argv = grepCommand("interface")
              /\ mac.defaultInterface = Str(StringOf(settled[k - 1].out))
              /\ issued[k] = interfaceDetailsCommand(mac.defaultInterface.s)
         /\ issued[k] = awkCommand =>
              /\ k > 1
              /\ settled[k - 1].argv[1] = "grep"

C20_Witness ==
  /\ platform = "darwin"
  /\ pc = "inet"
  /\ Len(issued) = 9
  /\ Len(settled) = 8

-----------------------------------------------------------------------------
(* The detail queries of Linux.                                             *)

\* the detail queries of the call have all been issued
DetailsIssued == platform = "linux" /\ pc \in {"merge", "done"} /\ routes # <<>>

\* the devices the default routes name
RouteDevices == {routes[i].dev : i \in 1..Len(routes)}

\* C21: on Linux the detail commands issued in one call are as many as the
\* distinct devices of the default routes
C21_OnePerDevice ==
  DetailsIssued => Len(issued) - 1 = Cardinality(RouteDevices)

\* C21 as the code has it: one detail command for each route record, in route
\* order, a device that several routes share being queried once for each
C21_OnePerRoute ==
  DetailsIssued =>
    /\ Len(issued) = 1 + Len(routes)
    /\ \A k \in 1..Len(routes) : issued[k + 1] = ipInterfaceDetailsCommand(routes[k].dev)

C21_Witness ==
  /\ DetailsIssued
  /\ Len(routes) = 2
  /\ routes[1].dev = routes[2].dev
  /\ result # None

-----------------------------------------------------------------------------
(* The join of Linux, route by route.                                       *)

\* the candidates of the joined list that carry the fields of route k
CandidatesOfRoute(k) ==
  SelectSeq(interfaces,
            LAMBDA c : /\ c.dev = routes[k].dev
                       /\ c.gateway = routes[k].gateway
                       /\ c.metric = routes[k].metric)

\* the address entries the host has for a device
AddressEntriesOf(dev) ==
  Flat([j \in 1..Len(host.addrTable[dev].val) |-> host.addrTable[dev].val[j].addr_info])

\* C22: on Linux the join emits, for each default-route record, exactly one
\* candidate per address entry of the route's device, also when several
\* default routes share a device
C22_OneCandidatePerEntry ==
  (Joined /\ platform = "linux") =>
    \A k \in 1..Len(routes) :
      Len(CandidatesOfRoute(k)) = Len(AddressEntriesOf(routes[k].dev))

-----------------------------------------------------------------------------
(* The two queries of Windows.                                              *)

\* both queries printed one row each, of one interface index
OneObjectEach ==
  /\ platform = "windows"
  /\ Len(settled) = 2
  /\ \A i \in {1, 2} : /\ settled[i].st = "resolved"
                       /\ settled[i].out.kind = "json"
                       /\ ~settled[i].out.isArray
  /\ settled[1].out.val[1].ifIndex = settled[2].out.val[1].ifIndex

\* C23: on Windows, for the route query and the address query alike, empty
\* output fails the call with DefaultGatewayNotAvailableError, output that is
\* not JSON fails it with JSONParsingSpawnerOutputError, and a single JSON
\* object counts as a list of one: one route row and one address row of the
\* same interface index are joined into one candidate, which gives the result
\* when it is usable
C23_WindowsOutputs ==
  (platform = "windows" /\ pc = "done") =>
    /\ \A i \in 1..Len(settled) :
         settled[i].st = "resolved" =>
           /\ settled[i].out.kind = "empty" =>
                i = Len(settled) /\ error = DefaultGatewayNotAvailableError
           /\ settled[i].out.kind = "garbage" =>
                i = Len(settled) /\ error = JSONParsingSpawnerOutputError
    /\ \A i \in 1..Len(settled) :
         (settled[i].st = "resolved" /\ settled[i].out.kind = "json"
                                     /\ ~settled[i].out.isArray) =>
           IF i = 1 THEN /\ routes = <<settled[1].out.val[1]>>
                         /\ Len(settled) = 2
                    ELSE addrs = <<settled[2].out.val[1]>>
    /\ OneObjectEach =>
         LET c == WindowsInterface(settled[1].out.val[1], settled[2].out.val[1])
         IN  /\ interfaces = <<c>>
             /\ WindowsDefaultInterfaceByAddressFamily(<<c>>, addressFamily).ok =>
                  result = NetworkDefaultGateway(Str(c.IPAddress), Str(c.NextHop),
                                                 Str(c.InterfaceAlias), Num(c.PrefixLength))

C23_Witness ==
  /\ OneObjectEach
  /\ pc = "done"
  /\ result # None

-----------------------------------------------------------------------------
(* The row extraction of macOS.                                             *)

\* the rows of a text whose first token is the key, with or without its colon
RowsOfKey(input, key) ==
  SelectSeq(Lines(input), LAMBDA l : l # <<>> /\ l[1] \in {key, key \o ":"})

\* the rows of a text that hold the key anywhere
RowsHolding(input, key) ==
  SelectSeq(Lines(input), LAMBDA l : \E i \in 1..Len(l) : Occurs(key, l[i]))

\* the second tokens of the rows, one on each line
SecondTokens(rows) ==
  Join([i \in 1..Len(rows) |-> IF Len(rows[i]) >= 2 THEN rows[i][2] ELSE ""], "\n")

\* C24: valueFromRowKey(input, key) gives the second token of the row whose
\* first token is the key; a row that holds the key elsewhere adds nothing and
\* the value is a single one
C24_RowOfKey ==
  (platform = "darwin" /\ mac.gateway # Undefined) =>
    LET rows == RowsOfKey(mac.outputDefaultRoute, "gateway")
    IN  rows # <<>> => mac.gateway = Str(rows[1][2])

\* C24 as the code has it: valueFromRowKey(input, key), when it returns, gives
\* the second token of every row that holds the key anywhere, first token or
\* not, one on each line in the order of the rows
C24_RowsHoldingKey ==
  platform = "darwin" =>
    /\ mac.gateway # Undefined =>
         mac.gateway = Str(SecondTokens(RowsHolding(mac.outputDefaultRoute, "gateway")))
    /\ mac.defaultInterface # Undefined =>
         mac.defaultInterface =
           Str(SecondTokens(RowsHolding(mac.outputDefaultRoute, "interface")))

C24_Witness ==
  /\ platform = "darwin"
  /\ mac.gateway # Undefined
  /\ Len(RowsOfKey(mac.outputDefaultRoute, "gateway")) = 1
  /\ Len(RowsHolding(mac.outputDefaultRoute, "gateway")) = 2

-----------------------------------------------------------------------------
(* The token extraction of macOS.                                           *)

\* the tokens of the text valueFromKey was given
KeyParts == Flat(Lines(mac.output))

\* the places of the tokens that are the key
KeyPlaces == {i \in 1..Len(KeyParts) : KeyParts[i] = mac.key}

\* C25: valueFromKey(input, key) returns the token that follows the first
\* token equal to key; it returns null, and throws nothing, when no token is
\* the key or the key is the last token; a token that only starts with the
\* key is not the key
C25_TokenAfterKey ==
  (pc = "done" /\ mac.key # "" /\ host = NoHost) =>
    /\ error = ""
    /\ IF KeyPlaces = {} \/ Min(KeyPlaces) = Len(KeyParts)
       THEN result = [t |-> "null"]
       ELSE result = Str(KeyParts[Min(KeyPlaces) + 1])

C25_Witness ==
  /\ pc = "done"
  /\ host = NoHost
  /\ mac.key = "inet"
  /\ KeyParts = <<"inet6", "10.0.0.7", "inet">>
  /\ result = [t |-> "null"]

-----------------------------------------------------------------------------
(* Termination: every child process of the model terminates (it has a code  *)
(* or could not be started), so a call that stays pending stays so because  *)
(* an executor's promise was never settled.                                 *)

\* C26: every executor call settles, resolved with the output or rejected, so
\* that no call is left pending for ever; under Node a child that was given
\* stdin and exits non-zero, or cannot be spawned, gives a rejected promise
C26_EveryCallSettles ==
  /\ \A i \in 1..Len(settled) : settled[i].st \in {"resolved", "rejected"}
  /\ pc # "uncaught"
  /\ runtime = "node" =>
       \A i \in 1..Len(settled) :
          (settled[i].hasInput /\ (~settled[i].spawned \/ settled[i].code # 0)) =>
            settled[i].st = "rejected"

-----------------------------------------------------------------------------
(* The order in which the detail queries of Linux complete.                 *)

\* the detail queries that fail on the host, by the place of their route
DetailsFailing == {k \in 1..Len(routes) : ~LinuxDetail(k).ok}

\* what the routes and the answers of the host give when the answers are
\* taken route by route
InRouteOrder ==
  LinuxDefaultInterfaceByAddressFamily(
    mergeRoutesWithAddresseses(routes, Flat([k \in 1..Len(routes) |-> LinuxDetail(k).val])),
    addressFamily)

\* C27: on Linux the outcome of a call, its result or the failure raised, is
\* fixed by the outputs of the commands, whatever the order the detail queries
\* complete in: the address records are merged in the order of the routes
C27_OrderIndependent ==
  (platform = "linux" /\ pc = "done" /\ routes # <<>>) =>
    IF DetailsFailing # {}
    THEN result = None /\ error = LinuxDetail(Min(DetailsFailing)).err
    ELSE /\ addrs = [k \in 1..Len(routes) |-> LinuxDetail(k).val]
         /\ IF InRouteOrder.ok
            THEN result = NetworkDefaultGateway(Str(InRouteOrder.val.local),
                                                InRouteOrder.val.gateway,
                                                Str(InRouteOrder.val.ifname),
                                                Num(InRouteOrder.val.prefixlen))
            ELSE result = None /\ error = InRouteOrder.err

\* the query of the second route completed before that of the first
C27_Witness ==
  /\ platform = "linux"
  /\ pc = "done"
  /\ Len(routes) = 2
  /\ routes[1].dev # routes[2].dev
  /\ Len(settled) = 3
  /\ settled[2].argv = ipInterfaceDetailsCommand(routes[2].dev)
  /\ result # None

-----------------------------------------------------------------------------
(* The address row of macOS.                                                *)

\* the rows of the requested family that ifconfig printed for the interface
FamilyRows ==
  SelectSeq(Lines(mac.outputInterface),
            LAMBDA l : l # <<>> /\ l[1] = UnixAddressFamily(addressFamily))

\* what one row alone gives
OfRow(row) == DarwinInterface(Text(<<row>>), addressFamily)

\* C28: on macOS the ip and the prefixLength of a result come from one row of
\* the interface details, the first of the requested family, also when the
\* interface has several addresses of the family or the first row has no
\* netmask or prefixlen
C28_SameRow ==
  (pc = "done" /\ host = NoHost /\ result # None) =>
    /\ FamilyRows # <<>>
    /\ OfRow(FamilyRows[1]).ok
    /\ result.inet = OfRow(FamilyRows[1]).inet
    /\ result.prefixlen = OfRow(FamilyRows[1]).prefixlen

-----------------------------------------------------------------------------
(* Selection among candidates without a metric.                             *)

NoMetric(c) == MetricOf(c).t # "number"

\* every comparison the reduce makes has a candidate without metric on one
\* side, and there is one to make
EveryComparisonLacksAMetric ==
  /\ Len(Eligible) >= 2
  /\ \A k \in 1..(Len(Eligible) - 1) : NoMetric(Eligible[k]) \/ NoMetric(Eligible[k + 1])

-----------------------------------------------------------------------------
(* The runtime picked.                                                      *)

\* the global of the runtime is there with its version
Detected(r) ==
  CASE r = "bun" -> globals.Bun = "versioned"
    [] r = "deno" -> globals.Deno = "versioned"
    [] r = "node" -> globals.process = "versioned"

\* currentRuntime has returned or thrown
RuntimeChecked == pc # "runtime" /\ globals.process # "bare"

\* C30: currentRuntime takes the first of Bun, Deno, Node whose check is
\* truthy: one runtime is selected even when several globals are there, Node
\* only when neither Bun nor Deno is detected; when no check is truthy the
\* call fails with RuntimeNotSupportedError, no platform is created and no
\* command runs
C30_FirstDetectedRuntime ==
  RuntimeChecked =>
    /\ Detected("bun") => runtime = "bun"
    /\ (~Detected("bun") /\ Detected("deno")) => runtime = "deno"
    /\ (~Detected("bun") /\ ~Detected("deno") /\ Detected("node")) => runtime = "node"
    /\ (\A r \in Runtime : ~Detected(r)) =>
         /\ runtime = "none"
         /\ pc = "done"
         /\ error = RuntimeNotSupportedError
         /\ result = None
         /\ platform = NoPlatform
         /\ issued = <<>>
         /\ settled = <<>>

\* the three globals are there and the call went on under Bun to a result
C30_Witness ==
  /\ \A r \in Runtime : Detected(r)
  /\ runtime = "bun"
  /\ pc = "done"
  /\ result # None

=============================================================================
